---------------------------- MODULE Spec2Model ----------------------------
(***************************************************************************)
(* Model of share/flask_sync_api.py: the token service, the folder         *)
(* resolver and the file store behind the sync API's boundary operations.  *)
(*                                                                         *)
(* Strings are sequences of symbols.  A symbol is one character ("/", ".", *)
(* "\\", "_", "-") or an indivisible alphanumeric word ("downloads",       *)
(* "U001", "a").  No two alphanumeric words are ever adjacent in a string  *)
(* of the model, so prefix and substring tests on symbol sequences agree   *)
(* with Python's tests on the characters.                                  *)
(*                                                                         *)
(* A location is the sequence of directory entries from the filesystem     *)
(* root, each entry a string; the filesystem holds no symbolic links.      *)
(* Time is counted in whole seconds, the resolution of a token's exp.      *)
(***************************************************************************)
EXTENDS Integers, Sequences, FiniteSets, TLC

VARIABLES
    RESTRICTED,   \* flask_sync_api.py:36, fixed configuration
    now,          \* the wall clock, in seconds
    issued,       \* the tokens issue-token has returned so far
    dirs,         \* the directories of the filesystem (locations)
    files,        \* the regular files: location -> content
    req,          \* the last request: operation and inputs
    result,       \* what the last request returned
    io,           \* the filesystem accesses the last request made
    saving        \* the requests served step by step, each on its own thread

vars == <<RESTRICTED, now, issued, dirs, files, req, result, io, saving>>

---------------------------------------------------------------------------
(* Python values *)

None == <<"<None>">>

Truthy(x) == x # None /\ x # <<>>

\* str.startswith
StartsWith(s, p) == Len(p) <= Len(s) /\ SubSeq(s, 1, Len(p)) = p

\* `sub in s` for strings
Contains(s, sub) ==
    \E i \in 1..(Len(s) - Len(sub) + 1) : SubSeq(s, i, i + Len(sub) - 1) = sub

\* the symbols that are not alphanumeric words
Punct == {"/", ".", "\\", "_", "-"}

\* str.isalnum: non-empty and every character alphanumeric
IsAlnum(s) == s # <<>> /\ \A i \in 1..Len(s) : s[i] \notin Punct

\* str.replace(ch, '') for a one-character ch
RECURSIVE Remove(_, _)
Remove(s, ch) ==
    IF s = <<>> THEN <<>>
    ELSE IF Head(s) = ch THEN Remove(Tail(s), ch)
    ELSE <<Head(s)>> \o Remove(Tail(s), ch)

---------------------------------------------------------------------------
(* posixpath *)

SEP == <<"/">>
DOTDOT == <<".", ".">>

\* os.path.join of two components
Join2(a, b) ==
    IF StartsWith(b, SEP) THEN b
    ELSE IF a = <<>> \/ a[Len(a)] = "/" THEN a \o b
    ELSE a \o SEP \o b

RECURSIVE JoinFrom(_, _)
JoinFrom(acc, parts) ==
    IF parts = <<>> THEN acc ELSE JoinFrom(Join2(acc, Head(parts)), Tail(parts))

\* os.path.join(a, *p)
Join(parts) == JoinFrom(Head(parts), Tail(parts))

\* the index of the last "/" of p, 0 when it has none (str.rfind + 1)
LastSep(p) ==
    IF \E i \in 1..Len(p) : p[i] = "/"
    THEN CHOOSE i \in 1..Len(p) : p[i] = "/" /\ \A j \in (i+1)..Len(p) : p[j] # "/"
    ELSE 0

RECURSIVE RStripSep(_)
RStripSep(s) ==
    IF s # <<>> /\ s[Len(s)] = "/" THEN RStripSep(SubSeq(s, 1, Len(s) - 1)) ELSE s

\* os.path.dirname
Dirname(p) ==
    LET head == SubSeq(p, 1, LastSep(p))
    IN  IF head # <<>> /\ \E i \in 1..Len(head) : head[i] # "/"
        THEN RStripSep(head) ELSE head

\* the components of a path between its separators
RECURSIVE Split(_)
Split(s) ==
    IF ~Contains(s, SEP) THEN <<s>>
    ELSE LET i == CHOOSE i \in 1..Len(s) :
                      s[i] = "/" /\ \A j \in 1..(i-1) : s[j] # "/"
         IN  <<SubSeq(s, 1, i - 1)>> \o Split(SubSeq(s, i + 1, Len(s)))

---------------------------------------------------------------------------
(* The filesystem as the operating system resolves paths *)

FsRoot == <<>>
CWD == << <<"app">> >>          \* the process's working directory
NoEnt == << <<"<ENOENT>">> >>   \* a path that resolves to nothing

Parent(loc) == IF loc = <<>> THEN <<>> ELSE SubSeq(loc, 1, Len(loc) - 1)

IsUnder(loc, top) == Len(top) <= Len(loc) /\ SubSeq(loc, 1, Len(top)) = top

\* path resolution: every component but the last must be a directory
RECURSIVE Walk(_, _, _)
Walk(D, cur, segs) ==
    IF segs = <<>> THEN cur
    ELSE IF cur \notin D THEN NoEnt
    ELSE LET s == Head(segs)
         IN  Walk(D,
                  IF s = <<>> \/ s = <<".">> THEN cur
                  ELSE IF s = DOTDOT THEN Parent(cur)
                  ELSE Append(cur, s),
                  Tail(segs))

Locate(D, path) ==
    IF path = <<>> THEN NoEnt
    ELSE Walk(D, IF path[1] = "/" THEN FsRoot ELSE CWD, Split(path))

\* os.makedirs(name, exist_ok=True): creates every missing directory on the
\* way; fails when a component is a regular file
RECURSIVE MkWalk(_, _, _, _)
MkWalk(D, F, cur, segs) ==
    IF segs = <<>> THEN [ok |-> TRUE, dirs |-> D, made |-> {}]
    ELSE LET s == Head(segs)
             nxt == IF s = <<>> \/ s = <<".">> THEN cur
                    ELSE IF s = DOTDOT THEN Parent(cur)
                    ELSE Append(cur, s)
         IN  IF nxt \in DOMAIN F THEN [ok |-> FALSE, dirs |-> D, made |-> {}]
             ELSE LET r == MkWalk(D \cup {nxt}, F, nxt, Tail(segs))
                  IN  [r EXCEPT !.made = @ \cup ({nxt} \ D)]

MakeDirs(D, F, name) ==
    IF name = <<>> THEN [ok |-> FALSE, dirs |-> D, made |-> {}]
    ELSE MkWalk(D, F, IF name[1] = "/" THEN FsRoot ELSE CWD, Split(name))

\* os.listdir: the names of the entries of directory loc
ListDir(D, F, loc) ==
    {l[Len(l)] : l \in {e \in D \cup DOMAIN F : e # <<>> /\ Parent(e) = loc}}

---------------------------------------------------------------------------
(* Configuration, flask_sync_api.py:18-36 *)

JWT_KEY == "MyOwnSecretKey"
DATA_HOME == <<".", "/", "dataroot">>
TOKEN_DURATION == 300

androiduser == <<"androiduser">>
U001 == <<"U001">>
U002 == <<"U002">>
myuser == <<"myuser">>
sync_client == <<"sync", "_", "client">>

jwt_users ==
    (androiduser :> <<"secret">>) @@ (U001 :> <<"password1">>) @@
    (U002 :> <<"password2">>) @@ (myuser :> <<"mysecret">>) @@
    (sync_client :> <<"sync", "_", "password">>)

MANAGEMENT_USERS == {androiduser, sync_client}

\* the location of the data root
DataRoot == Locate({FsRoot, CWD}, DATA_HOME)

---------------------------------------------------------------------------
(* Results and filesystem accesses *)

Nothing == [none |-> TRUE]

\* jsonify(error=..., message=..., **payload)
Json(error, message, payload) ==
    [status |-> "json", error |-> error, message |-> message, payload |-> payload]

JsonError(message) == Json(TRUE, message, Nothing)

\* send_file(path): the response carries the file's bytes
SendFile(content) ==
    [status |-> "file", error |-> FALSE, message |-> "", payload |-> content]

\* an exception no handler catches: the request ends without a result of the API
Abort == [status |-> "abort", error |-> TRUE, message |-> "", payload |-> Nothing]

Access(kind, loc) == <<kind, loc>>

\* a file's content: the bytes data, written at time mtime
Blob(data, mtime) == [json |-> FALSE, data |-> data, mtime |-> mtime]

\* the content of the day's log: a JSON list of records.  The model keeps
\* that it parses as a list, and neither its records nor its mtime, which no
\* operation of the API reads
JsonList == [json |-> TRUE, data |-> <<>>, mtime |-> 0]

\* what a handler did: the filesystem after it, its accesses, its result
Outcome(D, F, IO, R) == [dirs |-> D, files |-> F, io |-> IO, result |-> R]

---------------------------------------------------------------------------
(* ensure_user_directories, flask_sync_api.py:39-50 *)

\* ensure_user_directories creating the download subtree only
ensure_user_directories_downloads_only(D, F, user_folder) ==
    IF ~Truthy(user_folder) THEN [ok |-> TRUE, dirs |-> D, io |-> {}]
    ELSE LET m1 == MakeDirs(D, F,
                       Join(<<DATA_HOME, <<"downloads">>, <<"users">>, user_folder>>))
         IN  [ok |-> m1.ok, dirs |-> m1.dirs,
              io |-> {Access("mkdir", l) : l \in m1.made}]

ensure_user_directories(D, F, user_folder) ==
    IF ~Truthy(user_folder) THEN [ok |-> TRUE, dirs |-> D, io |-> {}]
    ELSE LET user_download_dir ==
                 Join(<<DATA_HOME, <<"downloads">>, <<"users">>, user_folder>>)
             m1 == MakeDirs(D, F, user_download_dir)
             io1 == {Access("stat", Locate(m1.dirs, user_download_dir))}
                    \cup {Access("mkdir", l) : l \in m1.made}
             user_upload_dir == Join(<<DATA_HOME, <<"uploads">>, user_folder>>)
             m2 == MakeDirs(m1.dirs, F, user_upload_dir)
             io2 == {Access("stat", Locate(m2.dirs, user_upload_dir))}
                    \cup {Access("mkdir", l) : l \in m2.made}
         IN  IF ~m1.ok THEN [ok |-> FALSE, dirs |-> m1.dirs, io |-> io1]
             ELSE [ok |-> m2.ok, dirs |-> m2.dirs, io |-> io1 \cup io2]

---------------------------------------------------------------------------
(* log_sync_operation, flask_sync_api.py:72-96 *)

LogName == <<"sync", "_", "today", ".", "json">>
log_file == Join(<<DATA_HOME, <<"logs">>, LogName>>)

log_sync_operation(D, F) ==
    LET loc == Locate(D, log_file)
        exists == loc \in D \cup DOMAIN F
        reads == IF exists THEN {Access("read", loc)} ELSE {}
    IN  IF loc = NoEnt \/ loc \in D
        THEN [ok |-> FALSE, files |-> F, io |-> {Access("stat", loc)}]
        ELSE [ok |-> TRUE,
              files |-> (loc :> JsonList) @@ F,
              io |-> {Access("stat", loc), Access("write", loc)} \cup reads]

\* a handler's last steps: log the operation, then return result R
LogAndReturn(D, F, IO, R) ==
    LET l == log_sync_operation(D, F)
    IN  Outcome(D, l.files, IO \cup l.io, IF l.ok THEN R ELSE Abort)

\* a send that takes the file away once it is sent
LogAndSend_consuming(D, F, IO, loc) ==
    LET l == log_sync_operation(D, F)
    IN  Outcome(D, [x \in DOMAIN l.files \ {loc} |-> l.files[x]],
                IO \cup l.io \cup {Access("read", loc)},
                IF l.ok THEN SendFile(l.files[loc]) ELSE Abort)

\* log the operation, then return send_file(path) of the regular file at loc
LogAndSend(D, F, IO, loc) ==
    LET l == log_sync_operation(D, F)
    IN  Outcome(D, l.files, IO \cup l.io \cup {Access("read", loc)},
                IF l.ok THEN SendFile(l.files[loc]) ELSE Abort)

---------------------------------------------------------------------------
(* get_user_folder, flask_sync_api.py:99-113 *)

\* a resolver that forgets restricted mode
get_user_folder_unrestricted(login_user, requested_folder) ==
    IF Truthy(requested_folder) THEN requested_folder ELSE login_user

\* a resolver that tests restricted mode before the role
get_user_folder_strict(login_user, requested_folder) ==
    IF RESTRICTED
    THEN (IF Truthy(requested_folder) /\ requested_folder # login_user
          THEN None ELSE login_user)
    ELSE (IF Truthy(requested_folder) THEN requested_folder ELSE login_user)

\* a resolver that falls back to the subject only when no folder was sent
get_user_folder_no_fallback(login_user, requested_folder) ==
    IF requested_folder = None THEN login_user ELSE requested_folder

get_user_folder(login_user, requested_folder) ==
    IF login_user \in MANAGEMENT_USERS
    THEN (IF Truthy(requested_folder) THEN requested_folder ELSE login_user)
    ELSE IF RESTRICTED
    THEN (IF Truthy(requested_folder) /\ requested_folder # login_user
          THEN None ELSE login_user)
    ELSE (IF Truthy(requested_folder) THEN requested_folder ELSE login_user)

---------------------------------------------------------------------------
(* Tokens: jwt.encode / jwt.decode with HS256, and verify_token,           *)
(* flask_sync_api.py:116-126                                               *)

\* jwt.encode(payload, key, algorithm="HS256")
JwtEncode(payload, key) == [wf |-> TRUE, key |-> key, claims |-> payload]

\* jwt.decode(token, key, algorithms=["HS256"]) at time t: the payload, or
\* the exception raised
JwtDecode(tok, key, t) ==
    IF ~tok.wf THEN [raised |-> "DecodeError"]
    ELSE IF tok.key # key THEN [raised |-> "InvalidSignatureError"]
    ELSE IF "exp" \in DOMAIN tok.claims /\ tok.claims.exp <= t
    THEN [raised |-> "ExpiredSignatureError"]
    ELSE [raised |-> "", payload |-> tok.claims]

\* the payload as verify_token returns it
Claims(payload) ==
    IF "user_id" \notin DOMAIN payload THEN None
    ELSE <<payload.user_id,
           IF "user_folder" \in DOMAIN payload THEN payload.user_folder ELSE None>>

\* verify_token reading the folder under a key the payload does not have
verify_token_wrong_claim(token_str, t) ==
    LET d == JwtDecode(token_str, JWT_KEY, t)
    IN  IF d.raised # "" \/ "user_id" \notin DOMAIN d.payload THEN None
        ELSE <<d.payload.user_id, None>>

\* verify_token with the expiry check switched off
verify_token_no_expiry(token_str, t) ==
    LET d == JwtDecode(token_str, JWT_KEY, -1)
    IN  IF d.raised # "" THEN None ELSE Claims(d.payload)

\* verify_token whose clock runs one second ahead
verify_token_early(token_str, t) ==
    LET d == JwtDecode(token_str, JWT_KEY, t + 1)
    IN  IF d.raised # "" THEN None ELSE Claims(d.payload)

\* verify_token with the signature check switched off
verify_token_no_signature(token_str, t) ==
    LET d == JwtDecode(token_str, IF token_str.wf THEN token_str.key ELSE JWT_KEY, t)
    IN  IF d.raised # "" THEN None ELSE Claims(d.payload)

verify_token(token_str, t) ==
    LET d == JwtDecode(token_str, JWT_KEY, t)
    IN  IF d.raised # "" THEN None ELSE Claims(d.payload)


\* a request parameter that was not sent: request.form[...] raises KeyError
NoToken == [missing |-> TRUE]

Unauthenticated == JsonError("Invalid or expired token.")

os_path_exists(D, F, path) == Locate(D, path) \in D \cup DOMAIN F
os_path_isfile(D, F, path) == Locate(D, path) \in DOMAIN F
os_path_isdir(D, F, path) == Locate(D, path) \in D

---------------------------------------------------------------------------
(* POST /api/v1/token, flask_sync_api.py:129-182 *)

\* a credential check that takes any secret of a known subject
InvalidCredentials_any_secret(user_id, password) == user_id \notin DOMAIN jwt_users

\* the test of line 137
InvalidCredentials(user_id, password) ==
    user_id \notin DOMAIN jwt_users \/ jwt_users[user_id] # password

\* token telling an unknown subject from a wrong secret
token_naming_subcase(user_id, password, requested_folder) ==
    IF user_id = None \/ password = None
    THEN Outcome(dirs, files, {}, JsonError("Missing parameter"))
    ELSE IF user_id \notin DOMAIN jwt_users
    THEN LogAndReturn(dirs, files, {}, JsonError("Unknown user."))
    ELSE IF jwt_users[user_id] # password
    THEN LogAndReturn(dirs, files, {}, JsonError("Wrong password."))
    ELSE
    LET user_folder == get_user_folder(user_id, requested_folder)
        e == ensure_user_directories(dirs, files, user_folder)
        payload == [user_id |-> user_id, user_folder |-> user_folder,
                    exp |-> now + TOKEN_DURATION]
    IN  IF user_folder = None
        THEN LogAndReturn(dirs, files, {}, JsonError(
                 "In restricted mode, users can only access their own folder."))
        ELSE IF ~e.ok THEN Outcome(e.dirs, files, e.io, Abort)
        ELSE LogAndReturn(e.dirs, files, e.io,
                 Json(FALSE, "Token valid for 300 seconds.",
                      [token |-> JwtEncode(payload, JWT_KEY),
                       user_folder |-> user_folder]))

\* token leaving the directories of the folder to create-folder
token_no_directories(user_id, password, requested_folder) ==
    IF user_id = None \/ password = None
    THEN Outcome(dirs, files, {}, JsonError("Missing parameter"))
    ELSE IF InvalidCredentials(user_id, password)
    THEN LogAndReturn(dirs, files, {}, JsonError("Invalid credentials."))
    ELSE
    LET user_folder == get_user_folder(user_id, requested_folder)
        payload == [user_id |-> user_id, user_folder |-> user_folder,
                    exp |-> now + TOKEN_DURATION]
    IN  IF user_folder = None
        THEN LogAndReturn(dirs, files, {}, JsonError(
                 "In restricted mode, users can only access their own folder."))
        ELSE LogAndReturn(dirs, files, {},
                 Json(FALSE, "Token valid for 300 seconds.",
                      [token |-> JwtEncode(payload, JWT_KEY),
                       user_folder |-> user_folder]))

token(user_id, password, requested_folder) ==
    IF user_id = None \/ password = None
    THEN Outcome(dirs, files, {}, JsonError("Missing parameter"))
    ELSE IF InvalidCredentials(user_id, password)
    THEN LogAndReturn(dirs, files, {}, JsonError("Invalid credentials."))
    ELSE
    LET user_folder == get_user_folder(user_id, requested_folder)
        e == ensure_user_directories(dirs, files, user_folder)
        payload == [user_id |-> user_id, user_folder |-> user_folder,
                    exp |-> now + TOKEN_DURATION]
    IN  IF user_folder = None
        THEN LogAndReturn(dirs, files, {}, JsonError(
                 "In restricted mode, users can only access their own folder."))
        ELSE IF ~e.ok THEN Outcome(e.dirs, files, e.io, Abort)
        ELSE LogAndReturn(e.dirs, files, e.io,
                 Json(FALSE, "Token valid for 300 seconds.",
                      [token |-> JwtEncode(payload, JWT_KEY),
                       user_folder |-> user_folder]))

---------------------------------------------------------------------------
(* POST /api/v1/downloads, flask_sync_api.py:185-225 *)

\* the regular files directly in the directory at loc, each as prefix + name
FilesIn(D, F, loc, prefix) ==
    {prefix \o item : item \in {i \in ListDir(D, F, loc) : Append(loc, i) \in DOMAIN F}}

\* list_downloads leaving the global files out when the token has a folder
list_downloads_own_only(token_str) ==
    IF token_str = NoToken
    THEN Outcome(dirs, files, {}, JsonError("Missing token parameter."))
    ELSE IF verify_token(token_str, now) = None
    THEN Outcome(dirs, files, {}, Unauthenticated)
    ELSE
    LET user_folder == verify_token(token_str, now)[2]
        dl == Locate(dirs, Join(<<DATA_HOME, <<"downloads">>>>))
        ul == Locate(dirs, Join(<<DATA_HOME, <<"downloads">>, <<"users">>, user_folder>>))
    IN  LogAndReturn(dirs, files, {Access("list", dl), Access("list", ul)},
            Json(FALSE, "Files available for download.",
                 [files |-> IF Truthy(user_folder) /\ ul \in dirs
                            THEN FilesIn(dirs, files, ul,
                                     <<"downloads", "/", "users", "/">> \o user_folder \o SEP)
                            ELSE FilesIn(dirs, files, dl, <<"downloads", "/">>)]))

list_downloads(token_str) ==
    IF token_str = NoToken
    THEN Outcome(dirs, files, {}, JsonError("Missing token parameter."))
    ELSE IF verify_token(token_str, now) = None
    THEN Outcome(dirs, files, {}, Unauthenticated)
    ELSE
    LET user_folder == verify_token(token_str, now)[2]
        downloads_dir == Join(<<DATA_HOME, <<"downloads">>>>)
        dl == Locate(dirs, downloads_dir)
        global == IF os_path_exists(dirs, files, downloads_dir)
                  THEN FilesIn(dirs, files, dl, <<"downloads", "/">>) ELSE {}
        io1 == {Access("stat", dl)} \cup
               (IF os_path_exists(dirs, files, downloads_dir)
                THEN {Access("list", dl)} ELSE {})
        user_downloads ==
            Join(<<DATA_HOME, <<"downloads">>, <<"users">>, user_folder>>)
        ul == Locate(dirs, user_downloads)
        own == FilesIn(dirs, files, ul,
                       <<"downloads", "/", "users", "/">> \o user_folder \o SEP)
    IN  IF ~Truthy(user_folder) \/ ~os_path_exists(dirs, files, user_downloads)
        THEN LogAndReturn(dirs, files,
                 io1 \cup (IF Truthy(user_folder) THEN {Access("stat", ul)} ELSE {}),
                 Json(FALSE, "Files available for download.", [files |-> global]))
        ELSE IF ul \notin dirs   \* os.listdir of a regular file raises
        THEN Outcome(dirs, files, io1 \cup {Access("stat", ul)}, Abort)
        ELSE LogAndReturn(dirs, files,
                 io1 \cup {Access("stat", ul), Access("list", ul)},
                 Json(FALSE, "Files available for download.",
                      [files |-> global \cup own]))

---------------------------------------------------------------------------
(* POST /api/v1/download_auto, flask_sync_api.py:228-263 *)

\* download_file_auto looking in the global directory first
download_file_auto_global_first(token_str, filename) ==
    IF token_str = NoToken \/ filename = None
    THEN Outcome(dirs, files, {}, JsonError("Missing parameter"))
    ELSE IF verify_token(token_str, now) = None
    THEN Outcome(dirs, files, {}, Unauthenticated)
    ELSE
    LET user_folder == verify_token(token_str, now)[2]
        ul == Locate(dirs,
                  Join(<<DATA_HOME, <<"downloads">>, <<"users">>, user_folder, filename>>))
        gl == Locate(dirs, Join(<<DATA_HOME, <<"downloads">>, filename>>))
    IN  IF gl \in DOMAIN files
        THEN LogAndSend(dirs, files, {Access("stat", gl)}, gl)
        ELSE IF ul \in DOMAIN files
        THEN LogAndSend(dirs, files, {Access("stat", gl), Access("stat", ul)}, ul)
        ELSE LogAndReturn(dirs, files, {Access("stat", gl), Access("stat", ul)},
                 JsonError("File not found in user or global directories."))

download_file_auto(token_str, filename) ==
    IF token_str = NoToken \/ filename = None
    THEN Outcome(dirs, files, {}, JsonError("Missing parameter"))
    ELSE IF verify_token(token_str, now) = None
    THEN Outcome(dirs, files, {}, Unauthenticated)
    ELSE IF \/ Contains(filename, DOTDOT) \/ Contains(filename, SEP)
            \/ Contains(filename, <<"\\">>)
    THEN Outcome(dirs, files, {},
             JsonError("Invalid filename. Use filename only, no paths."))
    ELSE
    LET user_folder == verify_token(token_str, now)[2]
        user_file_path ==
            Join(<<DATA_HOME, <<"downloads">>, <<"users">>, user_folder, filename>>)
        ul == Locate(dirs, user_file_path)
        io1 == IF Truthy(user_folder) THEN {Access("stat", ul)} ELSE {}
        global_file_path == Join(<<DATA_HOME, <<"downloads">>, filename>>)
        gl == Locate(dirs, global_file_path)
    IN  IF Truthy(user_folder) /\ os_path_isfile(dirs, files, user_file_path)
        THEN LogAndSend(dirs, files, io1, ul)
        ELSE IF os_path_isfile(dirs, files, global_file_path)
        THEN LogAndSend(dirs, files, io1 \cup {Access("stat", gl)}, gl)
        ELSE LogAndReturn(dirs, files, io1 \cup {Access("stat", gl)},
                 JsonError("File not found in user or global directories."))

---------------------------------------------------------------------------
(* POST /api/v1/download, flask_sync_api.py:266-299 *)

download_file(token_str, file_path) ==
    IF token_str = NoToken \/ file_path = None
    THEN Outcome(dirs, files, {}, JsonError("Missing parameter"))
    ELSE IF verify_token(token_str, now) = None
    THEN Outcome(dirs, files, {}, Unauthenticated)
    ELSE
    LET user_folder == verify_token(token_str, now)[2]
        allowed ==
            /\ StartsWith(file_path, <<"downloads", "/">>)
            /\ \/ ~StartsWith(file_path, <<"downloads", "/", "users", "/">>)
               \/ /\ Truthy(user_folder)
                  /\ StartsWith(file_path,
                         <<"downloads", "/", "users", "/">> \o user_folder \o SEP)
        full_path == Join(<<DATA_HOME, file_path>>)
        loc == Locate(dirs, full_path)
    IN  IF ~allowed
        THEN Outcome(dirs, files, {}, JsonError("Access denied to requested file."))
        ELSE IF ~os_path_exists(dirs, files, full_path)
                \/ ~os_path_isfile(dirs, files, full_path)
        THEN Outcome(dirs, files, {Access("stat", loc)}, JsonError("File not found."))
        ELSE LogAndSend(dirs, files, {Access("stat", loc)}, loc)


\* FileStorage.save(path): open(path, 'wb') and write the bytes.  Fails when
\* the parent directory is missing or the path is a directory
FileSave(D, F, path, data) ==
    LET loc == Locate(D, path)
    IN  IF loc = NoEnt \/ loc \in D
        THEN [ok |-> FALSE, files |-> F, io |-> {Access("stat", loc)}]
        ELSE [ok |-> TRUE, files |-> (loc :> Blob(data, now)) @@ F,
              io |-> {Access("write", loc)}]

---------------------------------------------------------------------------
(* POST /api/v1/upload, flask_sync_api.py:302-346 *)

\* the loop of lines 329-337 over the request's files, in order
RECURSIVE SaveAll(_, _, _, _)
SaveAll(D, F, upload_dir, request_files) ==
    IF request_files = <<>>
    THEN [ok |-> TRUE, files |-> F, io |-> {}, uploaded_files |-> <<>>]
    ELSE LET file == Head(request_files)
             w == FileSave(D, F, Join(<<upload_dir, file.filename>>), file.data)
             rest == SaveAll(D, w.files, upload_dir, Tail(request_files))
         IN  IF ~Truthy(file.filename)
             THEN SaveAll(D, F, upload_dir, Tail(request_files))
             ELSE IF ~w.ok
             THEN [ok |-> FALSE, files |-> F, io |-> w.io, uploaded_files |-> <<>>]
             ELSE [rest EXCEPT !.io = @ \cup w.io,
                               !.uploaded_files = <<file.filename>> \o @]

upload_files(token_str, request_files) ==
    IF token_str = NoToken
    THEN Outcome(dirs, files, {}, JsonError("Missing token parameter."))
    ELSE IF verify_token(token_str, now) = None
    THEN Outcome(dirs, files, {}, Unauthenticated)
    ELSE IF request_files = <<>>
    THEN Outcome(dirs, files, {}, JsonError("No files provided."))
    ELSE
    LET user_id == verify_token(token_str, now)[1]
        user_folder == verify_token(token_str, now)[2]
        upload_folder == IF Truthy(user_folder) THEN user_folder ELSE user_id
        upload_dir == Join(<<DATA_HOME, <<"uploads">>, upload_folder>>)
        m == MakeDirs(dirs, files, upload_dir)
        io1 == {Access("stat", Locate(m.dirs, upload_dir))}
               \cup {Access("mkdir", l) : l \in m.made}
        w == SaveAll(m.dirs, files, upload_dir, request_files)
    IN  IF ~m.ok THEN Outcome(m.dirs, files, io1, Abort)
        ELSE IF ~w.ok THEN Outcome(m.dirs, w.files, io1 \cup w.io, Abort)
        ELSE LogAndReturn(m.dirs, w.files, io1 \cup w.io,
                 Json(FALSE, "Files uploaded successfully.",
                      [uploaded_files |-> w.uploaded_files,
                       upload_folder |-> upload_folder]))

---------------------------------------------------------------------------
(* POST /api/v1/uploads, flask_sync_api.py:349-386 *)

\* list_uploads without the test `if files` of line 377
list_uploads_with_empty(token_str) ==
    IF token_str = NoToken
    THEN Outcome(dirs, files, {}, JsonError("Missing token parameter."))
    ELSE IF verify_token(token_str, now) = None
    THEN Outcome(dirs, files, {}, Unauthenticated)
    ELSE IF verify_token(token_str, now)[1] \notin MANAGEMENT_USERS
    THEN Outcome(dirs, files, {}, JsonError("Access denied."))
    ELSE
    LET ul == Locate(dirs, Join(<<DATA_HOME, <<"uploads">>>>))
        folders == {n \in ListDir(dirs, files, ul) : Append(ul, n) \in dirs}
    IN  LogAndReturn(dirs, files,
            {Access("stat", ul), Access("list", ul)}
            \cup {Access("list", Append(ul, n)) : n \in folders},
            Json(FALSE, "Upload files listed.",
                 [uploads |-> [n \in folders |->
                                  FilesIn(dirs, files, Append(ul, n), <<>>)]]))

list_uploads(token_str) ==
    IF token_str = NoToken
    THEN Outcome(dirs, files, {}, JsonError("Missing token parameter."))
    ELSE IF verify_token(token_str, now) = None
    THEN Outcome(dirs, files, {}, Unauthenticated)
    ELSE IF verify_token(token_str, now)[1] \notin MANAGEMENT_USERS
    THEN Outcome(dirs, files, {}, JsonError("Access denied."))
    ELSE
    LET uploads_dir == Join(<<DATA_HOME, <<"uploads">>>>)
        ul == Locate(dirs, uploads_dir)
        folders == {n \in ListDir(dirs, files, ul) : Append(ul, n) \in dirs}
        listed == {n \in folders : FilesIn(dirs, files, Append(ul, n), <<>>) # {}}
        all_uploads == [n \in listed |-> FilesIn(dirs, files, Append(ul, n), <<>>)]
    IN  IF ~os_path_exists(dirs, files, uploads_dir)
        THEN LogAndReturn(dirs, files, {Access("stat", ul)},
                 Json(FALSE, "Upload files listed.", [uploads |-> [n \in {} |-> {}]]))
        ELSE LogAndReturn(dirs, files,
                 {Access("stat", ul), Access("list", ul)}
                 \cup {Access("list", Append(ul, n)) : n \in folders},
                 Json(FALSE, "Upload files listed.", [uploads |-> all_uploads]))

---------------------------------------------------------------------------
(* POST /api/v1/sync_upload, flask_sync_api.py:389-438.  file is the        *)
(* request's 'file' part, or NoFile when the request has none.             *)

NoFile == [filename |-> None, data |-> <<>>]

sync_upload(token_str, target_path, file) ==
    IF token_str = NoToken \/ target_path = None
    THEN Outcome(dirs, files, {}, JsonError("Missing parameter"))
    ELSE IF verify_token(token_str, now) = None
    THEN Outcome(dirs, files, {}, Unauthenticated)
    ELSE IF verify_token(token_str, now)[1] \notin MANAGEMENT_USERS
    THEN Outcome(dirs, files, {}, JsonError("Access denied."))
    ELSE IF file = NoFile
    THEN Outcome(dirs, files, {}, JsonError("No file provided."))
    ELSE IF ~Truthy(file.filename)
    THEN Outcome(dirs, files, {}, JsonError("Empty file."))
    ELSE IF Contains(target_path, DOTDOT) \/ StartsWith(target_path, SEP)
    THEN Outcome(dirs, files, {}, JsonError("Invalid target path."))
    ELSE IF \/ StartsWith(target_path, <<"uploads", "/">>)
            \/ StartsWith(target_path, <<"logs", "/">>)
    THEN Outcome(dirs, files, {},
             JsonError("Cannot sync to uploads or logs directories."))
    ELSE
    LET full_path == Join(<<DATA_HOME, target_path>>)
        m == MakeDirs(dirs, files, Dirname(full_path))
        io1 == {Access("stat", Locate(m.dirs, Dirname(full_path)))}
               \cup {Access("mkdir", l) : l \in m.made}
        w == FileSave(m.dirs, files, full_path, file.data)
    IN  IF ~m.ok THEN Outcome(m.dirs, files, io1, Abort)
        ELSE IF ~w.ok THEN Outcome(m.dirs, files, io1 \cup w.io, Abort)
        ELSE LogAndReturn(m.dirs, w.files, io1 \cup w.io,
                 Json(FALSE, "File synced successfully.", [path |-> target_path]))

---------------------------------------------------------------------------
(* POST /api/v1/sync_delete, flask_sync_api.py:441-485 *)

\* files without the entry at loc (os.remove)
Without(F, loc) == [l \in DOMAIN F \ {loc} |-> F[l]]

\* sync_delete without the prefix rule of line 466
sync_delete_any_prefix(token_str, file_path) ==
    IF token_str = NoToken \/ file_path = None
    THEN Outcome(dirs, files, {}, JsonError("Missing parameter"))
    ELSE IF verify_token(token_str, now) = None
    THEN Outcome(dirs, files, {}, Unauthenticated)
    ELSE IF verify_token(token_str, now)[1] \notin MANAGEMENT_USERS
    THEN Outcome(dirs, files, {}, JsonError("Access denied."))
    ELSE IF Contains(file_path, DOTDOT) \/ StartsWith(file_path, SEP)
    THEN Outcome(dirs, files, {}, JsonError("Invalid file path."))
    ELSE
    LET loc == Locate(dirs, Join(<<DATA_HOME, file_path>>))
    IN  IF loc \notin DOMAIN files
        THEN Outcome(dirs, files, {Access("stat", loc)}, JsonError("File not found."))
        ELSE LogAndReturn(dirs, Without(files, loc),
                 {Access("stat", loc), Access("remove", loc)},
                 Json(FALSE, "File deleted successfully.", Nothing))

sync_delete(token_str, file_path) ==
    IF token_str = NoToken \/ file_path = None
    THEN Outcome(dirs, files, {}, JsonError("Missing parameter"))
    ELSE IF verify_token(token_str, now) = None
    THEN Outcome(dirs, files, {}, Unauthenticated)
    ELSE IF verify_token(token_str, now)[1] \notin MANAGEMENT_USERS
    THEN Outcome(dirs, files, {}, JsonError("Access denied."))
    ELSE IF Contains(file_path, DOTDOT) \/ StartsWith(file_path, SEP)
    THEN Outcome(dirs, files, {}, JsonError("Invalid file path."))
    ELSE IF ~(\/ StartsWith(file_path, <<"uploads", "/">>)
              \/ StartsWith(file_path, <<"logs", "/">>))
    THEN Outcome(dirs, files, {},
             JsonError("Can only delete from uploads or logs directories."))
    ELSE
    LET full_path == Join(<<DATA_HOME, file_path>>)
        loc == Locate(dirs, full_path)
    IN  IF ~os_path_exists(dirs, files, full_path)
        THEN Outcome(dirs, files, {Access("stat", loc)}, JsonError("File not found."))
        ELSE IF ~os_path_isfile(dirs, files, full_path)
        THEN Outcome(dirs, files, {Access("stat", loc)},
                 JsonError("Path is not a file."))
        ELSE LogAndReturn(dirs, Without(files, loc),
                 {Access("stat", loc), Access("remove", loc)},
                 Json(FALSE, "File deleted successfully.", Nothing))


---------------------------------------------------------------------------
(* POST /api/v1/file_metadata, flask_sync_api.py:488-537 *)

\* hashlib.sha256(content).hexdigest(), taken as free of collisions
Sha256(data) == <<"sha256", data>>

\* os.path.relpath(file_path, DATA_HOME) of a location under the data root
RECURSIVE JoinSegs(_)
JoinSegs(segs) ==
    IF segs = <<>> THEN <<>>
    ELSE IF Len(segs) = 1 THEN Head(segs)
    ELSE Head(segs) \o SEP \o JoinSegs(Tail(segs))

RelPath(loc) == JoinSegs(SubSeq(loc, Len(DataRoot) + 1, Len(loc)))

\* file_metadata whose digest also takes in the request served before it
file_metadata_salted(token_str) ==
    IF token_str = NoToken
    THEN Outcome(dirs, files, {}, JsonError("Missing parameter"))
    ELSE IF verify_token(token_str, now) = None
    THEN Outcome(dirs, files, {}, Unauthenticated)
    ELSE IF verify_token(token_str, now)[1] \notin MANAGEMENT_USERS
    THEN Outcome(dirs, files, {}, JsonError("Access denied."))
    ELSE
    LET dl == Locate(dirs, Join(<<DATA_HOME, <<"downloads">>>>))
        walked == {l \in DOMAIN files : IsUnder(l, dl) /\ l # dl}
        metadata == [rel \in {RelPath(l) : l \in walked} |->
                        LET l == CHOOSE x \in walked : RelPath(x) = rel
                        IN  [size |-> Len(files[l].data),
                             mtime |-> files[l].mtime,
                             hash |-> Sha256(<<req.op>> \o files[l].data)]]
    IN  LogAndReturn(dirs, files,
            {Access("stat", dl)} \cup {Access("read", l) : l \in walked},
            Json(FALSE, "Metadata retrieved.", [metadata |-> metadata]))

file_metadata(token_str) ==
    IF token_str = NoToken
    THEN Outcome(dirs, files, {}, JsonError("Missing parameter"))
    ELSE IF verify_token(token_str, now) = None
    THEN Outcome(dirs, files, {}, Unauthenticated)
    ELSE IF verify_token(token_str, now)[1] \notin MANAGEMENT_USERS
    THEN Outcome(dirs, files, {}, JsonError("Access denied."))
    ELSE
    LET downloads_dir == Join(<<DATA_HOME, <<"downloads">>>>)
        dl == Locate(dirs, downloads_dir)
        walked == {l \in DOMAIN files : IsUnder(l, dl) /\ l # dl}
        metadata == [rel \in {RelPath(l) : l \in walked} |->
                        LET l == CHOOSE x \in walked : RelPath(x) = rel
                        IN  [size |-> Len(files[l].data),
                             mtime |-> files[l].mtime,
                             hash |-> Sha256(files[l].data)]]
    IN  IF ~os_path_exists(dirs, files, downloads_dir)
        THEN LogAndReturn(dirs, files, {Access("stat", dl)},
                 Json(FALSE, "Metadata retrieved.", [metadata |-> [r \in {} |-> {}]]))
        ELSE LogAndReturn(dirs, files,
                 {Access("stat", dl)}
                 \cup {Access("list", d) : d \in {x \in dirs : IsUnder(x, dl)}}
                 \cup {Access("read", l) : l \in walked},
                 Json(FALSE, "Metadata retrieved.", [metadata |-> metadata]))

---------------------------------------------------------------------------
(* GET /api/v1/folders, flask_sync_api.py:540-569 *)

list_folders ==
    LET du == Locate(dirs, Join(<<DATA_HOME, <<"downloads">>, <<"users">>>>))
        up == Locate(dirs, Join(<<DATA_HOME, <<"uploads">>>>))
        SubDirs(loc) == {n \in ListDir(dirs, files, loc) : Append(loc, n) \in dirs}
    IN  Outcome(dirs, files,
            {Access("stat", du), Access("stat", up)}
            \cup {Access("list", l) : l \in {du, up} \cap dirs},
            Json(FALSE, "Available folders and info",
                 [existing_folders |->
                      (IF du \in dirs THEN SubDirs(du) ELSE {})
                      \cup (IF up \in dirs THEN SubDirs(up) ELSE {}),
                  management_users |-> MANAGEMENT_USERS,
                  restricted_mode |-> RESTRICTED,
                  available_logins |-> DOMAIN jwt_users]))

---------------------------------------------------------------------------
(* POST /api/v1/create_folder, flask_sync_api.py:572-605 *)

\* create_folder without its role check
create_folder_no_role(token_str, folder_name) ==
    IF token_str = NoToken \/ folder_name = None
    THEN Outcome(dirs, files, {}, JsonError("Missing parameter"))
    ELSE IF verify_token(token_str, now) = None
    THEN Outcome(dirs, files, {}, Unauthenticated)
    ELSE IF \/ folder_name = <<>>
            \/ ~IsAlnum(Remove(Remove(folder_name, "_"), "-"))
    THEN Outcome(dirs, files, {},
             JsonError("Invalid folder name. Use only letters, numbers, _ and -"))
    ELSE LET e == ensure_user_directories(dirs, files, folder_name)
         IN  IF ~e.ok THEN Outcome(e.dirs, files, e.io, Abort)
             ELSE LogAndReturn(e.dirs, files, e.io,
                      Json(FALSE, "Folder created successfully.",
                           [folder |-> folder_name]))

\* create_folder testing only that the name is not empty
create_folder_any_name(token_str, folder_name) ==
    IF token_str = NoToken \/ folder_name = None
    THEN Outcome(dirs, files, {}, JsonError("Missing parameter"))
    ELSE IF verify_token(token_str, now) = None
    THEN Outcome(dirs, files, {}, Unauthenticated)
    ELSE IF verify_token(token_str, now)[1] \notin MANAGEMENT_USERS
    THEN Outcome(dirs, files, {}, JsonError("Access denied."))
    ELSE IF folder_name = <<>>
    THEN Outcome(dirs, files, {},
             JsonError("Invalid folder name. Use only letters, numbers, _ and -"))
    ELSE LET e == ensure_user_directories(dirs, files, folder_name)
         IN  IF ~e.ok THEN Outcome(e.dirs, files, e.io, Abort)
             ELSE LogAndReturn(e.dirs, files, e.io,
                      Json(FALSE, "Folder created successfully.",
                           [folder |-> folder_name]))

create_folder(token_str, folder_name) ==
    IF token_str = NoToken \/ folder_name = None
    THEN Outcome(dirs, files, {}, JsonError("Missing parameter"))
    ELSE IF verify_token(token_str, now) = None
    THEN Outcome(dirs, files, {}, Unauthenticated)
    ELSE IF verify_token(token_str, now)[1] \notin MANAGEMENT_USERS
    THEN Outcome(dirs, files, {}, JsonError("Access denied."))
    ELSE IF \/ folder_name = <<>>
            \/ ~IsAlnum(Remove(Remove(folder_name, "_"), "-"))
    THEN Outcome(dirs, files, {},
             JsonError("Invalid folder name. Use only letters, numbers, _ and -"))
    ELSE LET e == ensure_user_directories(dirs, files, folder_name)
         IN  IF ~e.ok THEN Outcome(e.dirs, files, e.io, Abort)
             ELSE LogAndReturn(e.dirs, files, e.io,
                      Json(FALSE, "Folder created successfully.",
                           [folder |-> folder_name]))

---------------------------------------------------------------------------
(* setup_directories, flask_sync_api.py:53-69: the tree the service starts *)
(* with                                                                    *)

RECURSIVE MakeAll(_, _)
MakeAll(D, names) ==
    IF names = <<>> THEN D
    ELSE MakeAll(MakeDirs(D, <<>>, Join(<<DATA_HOME, Head(names)>>)).dirs, Tail(names))

RECURSIVE EnsureAll(_, _)
EnsureAll(D, users) ==
    IF users = {} THEN D
    ELSE LET u == CHOOSE u \in users : TRUE
         IN  EnsureAll(ensure_user_directories(D, <<>>, u).dirs, users \ {u})

setup_directories ==
    EnsureAll(MakeAll({FsRoot, CWD},
                      << <<"downloads">>, <<"uploads">>,
                         <<"downloads", "/", "users">>, <<"logs">> >>),
              DOMAIN jwt_users \ MANAGEMENT_USERS)


---------------------------------------------------------------------------
(* The state machine *)

NoFiles == [l \in {} |-> JsonList]

\* the threads that serve requests side by side (app.run serves each request
\* on a thread of its own)
Threads == {"t1", "t2"}
Idle == [pc |-> "idle"]

\* the service after setup_directories, with the restricted-mode flag among R
Start(R) ==
    /\ RESTRICTED \in R
    /\ now = 0
    /\ issued = {}
    /\ dirs = setup_directories
    /\ files = NoFiles
    /\ req = [op |-> "start", at |-> 0]
    /\ result = Json(FALSE, "Sync API is running", Nothing)
    /\ io = {}
    /\ saving = [w \in Threads |-> Idle]

MaxTokens == 2     \* tokens issued in one behaviour

\* a request r handled with outcome out
Handle(r, out) ==
    /\ req' = r
    /\ result' = out.result
    /\ io' = out.io
    /\ dirs' = out.dirs
    /\ files' = out.files
    /\ issued' = IF r.op = "token" /\ out.result.status = "json" /\ ~out.result.error
                 THEN issued \cup {out.result.payload.token} ELSE issued
    /\ Cardinality(issued') <= MaxTokens
    /\ UNCHANGED <<RESTRICTED, now, saving>>

Token(u, p, f) ==
    Handle([op |-> "token", at |-> now, user |-> u, password |-> p, folder |-> f],
           token(u, p, f))

ListDownloads(t) ==
    Handle([op |-> "list_downloads", at |-> now, token |-> t], list_downloads(t))

DownloadAuto(t, f) ==
    Handle([op |-> "download_file_auto", at |-> now, token |-> t, file |-> f],
           download_file_auto(t, f))

Download(t, f) ==
    Handle([op |-> "download_file", at |-> now, token |-> t, file |-> f],
           download_file(t, f))

Upload(t, fs) ==
    Handle([op |-> "upload_files", at |-> now, token |-> t, files |-> fs],
           upload_files(t, fs))

ListUploads(t) ==
    Handle([op |-> "list_uploads", at |-> now, token |-> t], list_uploads(t))

SyncUpload(t, target, f) ==
    Handle([op |-> "sync_upload", at |-> now, token |-> t, file |-> target,
            part |-> f],
           sync_upload(t, target, f))

SyncDelete(t, f) ==
    Handle([op |-> "sync_delete", at |-> now, token |-> t, file |-> f],
           sync_delete(t, f))

FileMetadata(t) ==
    Handle([op |-> "file_metadata", at |-> now, token |-> t], file_metadata(t))

ListFolders ==
    Handle([op |-> "list_folders", at |-> now], list_folders)

CreateFolder(t, name) ==
    Handle([op |-> "create_folder", at |-> now, token |-> t, folder |-> name],
           create_folder(t, name))

\* the instants the clock stops at: the start, and the last second before and
\* the first second at the expiry of a token issued at the start
Instants == {0, TOKEN_DURATION - 1, TOKEN_DURATION}

\* time passes
Tick ==
    /\ \E t \in Instants : t > now /\ now' = t
    /\ UNCHANGED <<RESTRICTED, issued, dirs, files, req, result, io, saving>>

---------------------------------------------------------------------------
(* upload_files, flask_sync_api.py:302-346, step by step on a thread: the   *)
(* checks and os.makedirs, then for each part the open of file.save, its   *)
(* writes and its close, then the log record and the response.  Between    *)
(* two steps of a thread the other thread may take steps of its own.       *)

\* write(fd, chunk) at offset off of a file holding d; a write past the end
\* leaves a hole of zero bytes
WriteAt(d, off, chunk) ==
    IF off >= Len(d)
    THEN d \o [i \in 1..(off - Len(d)) |-> 0] \o <<chunk>>
    ELSE [d EXCEPT ![off + 1] = chunk]

\* thread w ends its request with result R
Respond(w, r, IO, R) ==
    /\ saving' = [saving EXCEPT ![w] = [@ EXCEPT !.pc = "done", !.result = R]]
    /\ req' = r
    /\ result' = R
    /\ io' = IO

\* lines 305-325: the token, request.files, and the upload directory
UploadBegin(w, token_str, request_files) ==
    LET r == [op |-> "upload_files", at |-> now, token |-> token_str,
              files |-> request_files]
        auth == verify_token(token_str, now)
        upload_folder == IF Truthy(auth[2]) THEN auth[2] ELSE auth[1]
        upload_dir == Join(<<DATA_HOME, <<"uploads">>, upload_folder>>)
        m == MakeDirs(dirs, files, upload_dir)
        io1 == {Access("stat", Locate(m.dirs, upload_dir))}
               \cup {Access("mkdir", l) : l \in m.made}
        begun == [pc |-> "next", req |-> r, k |-> 1, off |-> 0, last |-> FALSE,
                  upload_folder |-> upload_folder, upload_dir |-> upload_dir,
                  uploaded_files |-> <<>>, io |-> io1, result |-> Nothing]
        ended(R) == [begun EXCEPT !.pc = "done", !.result = R, !.io = {}]
    IN
    /\ saving[w].pc = "idle"
    /\ IF token_str = NoToken
       THEN /\ saving' = [saving EXCEPT ![w] = ended(JsonError("Missing token parameter."))]
            /\ UNCHANGED dirs
       ELSE IF auth = None
       THEN /\ saving' = [saving EXCEPT ![w] = ended(Unauthenticated)]
            /\ UNCHANGED dirs
       ELSE IF request_files = <<>>
       THEN /\ saving' = [saving EXCEPT ![w] = ended(JsonError("No files provided."))]
            /\ UNCHANGED dirs
       ELSE IF ~m.ok
       THEN /\ saving' = [saving EXCEPT ![w] = [ended(Abort) EXCEPT !.io = io1]]
            /\ dirs' = m.dirs
       ELSE /\ saving' = [saving EXCEPT ![w] = begun]
            /\ dirs' = m.dirs
    /\ req' = r
    /\ result' = saving'[w].result
    /\ io' = saving'[w].io
    /\ UNCHANGED <<RESTRICTED, now, issued, files>>

\* lines 329-336: the next part; file.save opens its path for writing, which
\* creates the file or cuts it to no bytes
UploadOpen(w) ==
    LET t == saving[w]
        file == t.req.files[t.k]
        loc == Locate(dirs, Join(<<t.upload_dir, file.filename>>))
    IN  /\ t.pc = "next" /\ t.k <= Len(t.req.files)
        /\ IF ~Truthy(file.filename)
           THEN /\ saving' = [saving EXCEPT ![w] = [t EXCEPT !.k = @ + 1]]
                /\ UNCHANGED <<files, req, result, io>>
           ELSE IF loc = NoEnt \/ loc \in dirs
           THEN /\ Respond(w, t.req, t.io \cup {Access("stat", loc)}, Abort)
                /\ UNCHANGED files
           ELSE /\ files' = (loc :> Blob(<<>>, now)) @@ files
                /\ saving' = [saving EXCEPT ![w] =
                       [t EXCEPT !.pc = "write", !.off = 0,
                                 !.io = @ \cup {Access("write", loc)}]]
                /\ UNCHANGED <<req, result, io>>
        /\ UNCHANGED <<RESTRICTED, now, issued, dirs>>

\* line 336: file.save copies the stream to the open file; a step is one
\* buffer reaching the file.  last marks the thread whose last buffer reached
\* the file last
UploadWrite(w) ==
    LET t == saving[w]
        file == t.req.files[t.k]
        loc == Locate(dirs, Join(<<t.upload_dir, file.filename>>))
    IN  /\ t.pc = "write" /\ t.off < Len(file.data)
        /\ files' = [files EXCEPT ![loc] =
               Blob(WriteAt(@.data, t.off, file.data[t.off + 1]), now)]
        /\ saving' = [v \in Threads |->
               IF v = w
               THEN [t EXCEPT !.off = @ + 1, !.last = (t.off + 1 = Len(file.data))]
               ELSE IF saving[v].pc = "idle" \/ t.off + 1 < Len(file.data)
               THEN saving[v]
               ELSE [saving[v] EXCEPT !.last = FALSE]]
        /\ UNCHANGED <<RESTRICTED, now, issued, dirs, req, result, io>>

\* lines 336-337: file.save closes the file, the name joins uploaded_files
UploadClose(w) ==
    LET t == saving[w]
        file == t.req.files[t.k]
    IN  /\ t.pc = "write" /\ t.off = Len(file.data)
        /\ saving' = [saving EXCEPT ![w] =
               [t EXCEPT !.pc = "next", !.k = @ + 1,
                         !.uploaded_files = Append(@, file.filename)]]
        /\ UNCHANGED <<RESTRICTED, now, issued, dirs, files, req, result, io>>

\* lines 339-346: the log record and the response
UploadFinish(w) ==
    LET t == saving[w]
        l == log_sync_operation(dirs, files)
    IN  /\ t.pc = "next" /\ t.k > Len(t.req.files)
        /\ files' = l.files
        /\ Respond(w, t.req, t.io \cup l.io,
               IF l.ok
               THEN Json(FALSE, "Files uploaded successfully.",
                         [uploaded_files |-> t.uploaded_files,
                          upload_folder |-> t.upload_folder])
               ELSE Abort)
        /\ UNCHANGED <<RESTRICTED, now, issued, dirs>>

---------------------------------------------------------------------------
(* log_sync_operation, flask_sync_api.py:72-96, step by step on a thread:   *)
(* the read of the day's log into the local list, then the write of the    *)
(* list with the new record appended.  Here the log keeps its records.     *)

\* log_entry of lines 75-80, the timestamp apart
LogEntry(user_id, operation, details) ==
    [user_id |-> user_id, operation |-> operation, details |-> details]

\* the day's log holding the list logs
LogOf(logs) == [json |-> TRUE, data |-> logs, mtime |-> 0]

\* the records of the day's log, none when the file is missing
LogRecords ==
    LET loc == Locate(dirs, log_file)
    IN  IF loc \in DOMAIN files /\ files[loc].json THEN files[loc].data ELSE <<>>

\* thread w calls log_sync_operation with record e and goes on at pc after
CallLog(t, e, after) == [t EXCEPT !.pc = "logread", !.entry = e, !.after = after]

\* lines 85-91: logs = json.load(f) when the file exists, [] when it does not
\* or does not parse
LogRead(w) ==
    LET t == saving[w]
        loc == Locate(dirs, log_file)
    IN  /\ t.pc = "logread"
        /\ IF loc \in dirs    \* open of a directory raises
           THEN Respond(w, t.req, t.io \cup {Access("stat", loc)}, Abort)
           ELSE /\ saving' = [saving EXCEPT ![w] =
                      [t EXCEPT !.pc = "logwrite",
                                !.logs = IF loc \in DOMAIN files /\ files[loc].json
                                         THEN files[loc].data ELSE <<>>,
                                !.io = @ \cup {Access("stat", loc)}
                                         \cup (IF loc \in DOMAIN files
                                               THEN {Access("read", loc)} ELSE {})]]
                /\ UNCHANGED <<req, result, io>>
        /\ UNCHANGED <<RESTRICTED, now, issued, dirs, files>>

\* lines 93-96: logs.append(log_entry), then json.dump(logs) over the file
LogWrite(w) ==
    LET t == saving[w]
        loc == Locate(dirs, log_file)
    IN  /\ t.pc = "logwrite"
        /\ IF loc = NoEnt \/ loc \in dirs
           THEN /\ Respond(w, t.req, t.io, Abort)
                /\ UNCHANGED files
           ELSE /\ files' = (loc :> LogOf(Append(t.logs, t.entry))) @@ files
                /\ saving' = [saving EXCEPT ![w] =
                       [t EXCEPT !.pc = t.after,
                                 !.logs = Append(@, t.entry),
                                 !.io = @ \cup {Access("write", loc)}]]
                /\ UNCHANGED <<req, result, io>>
        /\ UNCHANGED <<RESTRICTED, now, issued, dirs>>

---------------------------------------------------------------------------
(* file_metadata, flask_sync_api.py:488-537, step by step on a thread: the  *)
(* checks, then os.walk listing one directory at a time, the stat and read *)
(* of each listed file, the log records and the response.                  *)

NoMetadata == [rel \in {} |-> Nothing]

\* lines 517-527: the entry of the file at loc
MetadataOf(F, loc) ==
    [size |-> Len(F[loc].data), mtime |-> F[loc].mtime, hash |-> Sha256(F[loc].data)]

\* a walk that lets the failure of one file end the request
VisitFailed_abort(t, loc) ==
    [t EXCEPT !.pc = "done", !.result = Abort, !.todo = @ \ {loc}]

\* lines 528-529: os.stat or open raised for the file at loc; the handler
\* logs METADATA_ERROR with the path and the error, and the loop goes on
VisitFailed(t, loc) ==
    CallLog([t EXCEPT !.todo = @ \ {loc}, !.skipped = @ \cup {loc}],
            LogEntry(t.user_id, "METADATA_ERROR", <<"File", RelPath(loc), "Error">>),
            "walk")

\* lines 491-511: the token, the role, and the top of the walk
MetaBegin(w, token_str) ==
    LET r == [op |-> "file_metadata", at |-> now, token |-> token_str]
        auth == verify_token(token_str, now)
        downloads_dir == Join(<<DATA_HOME, <<"downloads">>>>)
        dl == Locate(dirs, downloads_dir)
        begun == [pc |-> "walk", req |-> r, user_id |-> auth[1],
                  pending |-> {dl}, todo |-> {}, listed |-> {}, skipped |-> {},
                  metadata |-> NoMetadata, logs |-> <<>>, entry |-> Nothing,
                  after |-> "", io |-> {Access("stat", dl)}, result |-> Nothing]
        ended(R) == [begun EXCEPT !.pc = "done", !.result = R, !.io = {},
                                  !.pending = {}]
    IN
    /\ saving[w].pc = "idle"
    /\ saving' = [saving EXCEPT ![w] =
           IF token_str = NoToken THEN ended(JsonError("Missing parameter"))
           ELSE IF auth = None THEN ended(Unauthenticated)
           ELSE IF auth[1] \notin MANAGEMENT_USERS
           THEN ended(JsonError("Access denied."))
           ELSE IF ~os_path_exists(dirs, files, downloads_dir)
           THEN [begun EXCEPT !.pending = {}]
           ELSE begun]
    /\ req' = r
    /\ result' = saving'[w].result
    /\ io' = saving'[w].io
    /\ UNCHANGED <<RESTRICTED, now, issued, dirs, files>>

\* line 512: os.walk lists the next directory; its files are the ones the
\* loop of line 513 visits, its subdirectories are listed after them
MetaList(w) ==
    LET t == saving[w]
    IN  /\ t.pc = "walk" /\ t.todo = {}
        /\ \E d \in t.pending :
               LET names == IF d \in dirs THEN ListDir(dirs, files, d) ELSE {}
                   fs == {Append(d, n) : n \in names} \cap DOMAIN files
                   ds == {Append(d, n) : n \in names} \cap dirs
               IN  saving' = [saving EXCEPT ![w] =
                       [t EXCEPT !.pending = (@ \ {d}) \cup ds,
                                 !.todo = fs,
                                 !.listed = @ \cup fs,
                                 !.io = @ \cup {Access("list", d)}]]
        /\ UNCHANGED <<RESTRICTED, now, issued, dirs, files, req, result, io>>

\* lines 514-529: one listed file
MetaVisit(w) ==
    LET t == saving[w]
    IN  /\ t.pc = "walk"
        /\ \E loc \in t.todo :
               saving' = [saving EXCEPT ![w] =
                   IF loc \in DOMAIN files
                   THEN [t EXCEPT !.todo = @ \ {loc},
                                  !.metadata = (RelPath(loc) :> MetadataOf(files, loc)) @@ @,
                                  !.io = @ \cup {Access("read", loc)}]
                   ELSE VisitFailed(t, loc)]
        /\ UNCHANGED <<RESTRICTED, now, issued, dirs, files, req, result, io>>

\* line 531: the walk is over
MetaLog(w) ==
    LET t == saving[w]
    IN  /\ t.pc = "walk" /\ t.todo = {} /\ t.pending = {}
        /\ saving' = [saving EXCEPT ![w] =
               CallLog(t, LogEntry(t.user_id, "METADATA_REQUEST",
                                   <<"Files", Cardinality(DOMAIN t.metadata)>>),
                       "respond")]
        /\ UNCHANGED <<RESTRICTED, now, issued, dirs, files, req, result, io>>

\* lines 533-537
MetaRespond(w) ==
    LET t == saving[w]
    IN  /\ t.pc = "respond"
        /\ Respond(w, t.req, t.io,
               Json(FALSE, "Metadata retrieved.", [metadata |-> t.metadata]))
        /\ UNCHANGED <<RESTRICTED, now, issued, dirs, files>>

\* another process of the host removes the file at loc
Unlink(loc) ==
    /\ loc \in DOMAIN files
    /\ files' = Without(files, loc)
    /\ UNCHANGED <<RESTRICTED, now, issued, dirs, req, result, io, saving>>

---------------------------------------------------------------------------
(* Spec: tokens over time.  Few files, every operation, tokens of every     *)
(* kind.                                                                   *)

ghost == <<"ghost">>
acme == <<"acme">>
a == <<"a">>

\* tokens no issue-token call returned
Malformed == [wf |-> FALSE, key |-> "", claims |-> [none |-> TRUE]]
BadSignature ==
    JwtEncode([user_id |-> sync_client, user_folder |-> sync_client,
               exp |-> 3 * TOKEN_DURATION], "NotTheKey")
Forged == {Malformed, BadSignature}

\* issue-token requests: <<user, password, folder>>
Logins == {<<U001, <<"password1">>, None>>,
           <<sync_client, <<"sync", "_", "password">>, None>>,
           <<U001, <<"wrong">>, None>>,
           <<ghost, <<"password1">>, None>>}

Part == [filename |-> a, data |-> <<1>>]

Init == Start({FALSE})

Next ==
    \/ \E l \in Logins : Token(l[1], l[2], l[3])
    \/ \E t \in issued \cup Forged : ListDownloads(t)
    \/ \E t \in issued \cup Forged : DownloadAuto(t, a)
    \/ \E t \in issued \cup Forged : Download(t, <<"downloads", "/", "a">>)
    \/ \E t \in issued \cup Forged : Upload(t, <<Part>>)
    \/ \E t \in issued \cup Forged : ListUploads(t)
    \/ \E t \in issued \cup Forged : SyncUpload(t, <<"downloads", "/", "a">>, Part)
    \/ \E t \in issued \cup Forged :
           SyncDelete(t, <<"uploads", "/", "U001", "/", "a">>)
    \/ \E t \in issued \cup Forged : FileMetadata(t)
    \/ ListFolders
    \/ \E t \in issued \cup Forged : CreateFolder(t, U002)
    \/ Tick

Spec == Init /\ [][Next]_vars


---------------------------------------------------------------------------
(* SpecIssue: issue-token alone, in both modes, over subjects, secrets and  *)
(* requested folders.                                                      *)

IssueUsers == {U001, U002, sync_client, ghost}
IssuePasswords ==
    {<<"password1">>, <<"password2">>, <<"sync", "_", "password">>, <<"wrong">>}
IssueFolders == {None, <<>>, U001, U002, acme}

InitIssue == Start(BOOLEAN)

NextIssue ==
    \E u \in IssueUsers, p \in IssuePasswords, f \in IssueFolders : Token(u, p, f)

SpecIssue == InitIssue /\ [][NextIssue]_vars

---------------------------------------------------------------------------
(* SpecStore: the file store at one instant, with a Regular and a           *)
(* Management token and paths of every kind.                               *)

\* from uploads/{folder}/ three levels up: beside the data root
Outside == <<".", ".", "/", ".", ".", "/", ".", ".", "/", "x">>

StoreLogins == {<<U001, <<"password1">>, None>>,
                <<sync_client, <<"sync", "_", "password">>, None>>}

StoreUploads == {<<[filename |-> n, data |-> <<1>>]>> : n \in {a, Outside}}

StoreNames == {a, <<".", ".", "/", "a">>}

DownloadPaths ==
    {<<"downloads", "/", "a">>,
     <<"downloads", "/", ".", ".", "/", "uploads", "/", "U001", "/", "a">>,
     <<"uploads", "/", "U001", "/", "a">>}

PlaceTargets ==
    {<<"downloads", "/", "a">>,
     <<"downloads", "/", ".", ".", "/", "x">>,
     <<"uploads", "/", "U001", "/", "a">>}

RemoveTargets ==
    {<<"uploads", "/", "U001", "/", "a">>,
     <<"uploads", "/", ".", ".", "/", "downloads", "/", "a">>,
     <<"downloads", "/", "a">>}

StoreFolders == {acme, <<".", ".">>}

InitStore == Start({FALSE})

NextStore ==
    \/ \E l \in StoreLogins : Token(l[1], l[2], l[3])
    \/ \E t \in issued : ListDownloads(t)
    \/ \E t \in issued, f \in StoreNames : DownloadAuto(t, f)
    \/ \E t \in issued, f \in DownloadPaths : Download(t, f)
    \/ \E t \in issued, fs \in StoreUploads : Upload(t, fs)
    \/ \E t \in issued : ListUploads(t)
    \/ \E t \in issued, f \in PlaceTargets : SyncUpload(t, f, Part)
    \/ \E t \in issued, f \in RemoveTargets : SyncDelete(t, f)
    \/ \E t \in issued : FileMetadata(t)
    \/ ListFolders
    \/ \E t \in issued, n \in StoreFolders : CreateFolder(t, n)

SpecStore == InitStore /\ [][NextStore]_vars


---------------------------------------------------------------------------
(* SpecRead: the reading operations over a downloads tree that a            *)
(* Management subject fills, with tokens of two folders.                   *)

\* from downloads/users/ two levels up and into the audit tree
LogsFolder == <<".", ".", "/", ".", ".", "/", "logs">>

ReadLogins == {<<U001, <<"password1">>, None>>,
               <<U001, <<"password1">>, LogsFolder>>,
               <<sync_client, <<"sync", "_", "password">>, None>>}

Part2 == [filename |-> a, data |-> <<2, 2>>]

ReadPlaced ==
    {<<"downloads", "/", "a">>,
     <<"downloads", "/", "users", "/", "U001", "/", "a">>,
     <<"downloads", "/", "users", "/", "U002", "/", "a">>}

ReadPaths ==
    ReadPlaced \cup
    {<<"downloads", "/", "users", "/", "U001", "/", ".", ".", "/", "U002", "/", "a">>,
     <<"downloads", "/", "/", "users", "/", "U002", "/", "a">>,
     <<"uploads", "/", "U001", "/", "a">>}

InitRead == Start({FALSE})

NextRead ==
    \/ \E l \in ReadLogins : Token(l[1], l[2], l[3])
    \/ \E t \in issued, f \in ReadPlaced, p \in {Part, Part2} : SyncUpload(t, f, p)
    \/ \E t \in issued : Upload(t, <<Part>>)
    \/ \E t \in issued : ListDownloads(t)
    \/ \E t \in issued : DownloadAuto(t, a)
    \/ \E t \in issued, f \in ReadPaths : Download(t, f)
    \/ \E t \in issued : ListUploads(t)
    \/ \E t \in issued : FileMetadata(t)

SpecRead == InitRead /\ [][NextRead]_vars

---------------------------------------------------------------------------
(* SpecWrite: the writing operations, with a Regular and a Management       *)
(* token, over targets, filenames and folder names of every shape.         *)

b == <<"b">>
PartB == [filename |-> b, data |-> <<2, 2>>]
Unnamed == [filename |-> <<>>, data |-> <<1>>]

\* from uploads/U001/ into the upload subtree of another folder
Sibling == [filename |-> <<".", ".", "/", "U002", "/", "a">>, data |-> <<1>>]

WriteUploads == {<<Part>>, <<Unnamed, PartB>>, <<Sibling>>}

WritePlaceTargets ==
    {<<"downloads", "/", "a">>,
     <<"uploads", "/", "U001", "/", "a">>,
     <<".", "/", "uploads", "/", "U001", "/", "a">>}

WriteRemoveTargets ==
    {<<"uploads", "/", "U001", "/", "a">>,
     <<"uploads", "/", "U001", "/", "c">>,
     <<"uploads", "/", "U001">>,
     <<"logs", "/">> \o LogName,
     <<"downloads", "/", "a">>}

WriteFolders ==
    {acme, <<"new", "-", "1">>, <<"_">>, <<>>, <<".", ".">>, <<"x", "/", "y">>,
     <<"a", ".", "b">>}

InitWrite == Start({FALSE})

NextWrite ==
    \/ \E l \in StoreLogins : Token(l[1], l[2], l[3])
    \/ \E t \in issued, fs \in WriteUploads : Upload(t, fs)
    \/ \E t \in issued, f \in WritePlaceTargets : SyncUpload(t, f, Part2)
    \/ \E t \in issued, f \in WriteRemoveTargets : SyncDelete(t, f)
    \/ \E t \in issued, n \in WriteFolders : CreateFolder(t, n)

SpecWrite == InitWrite /\ [][NextWrite]_vars

---------------------------------------------------------------------------
(* SpecRace: two upload requests of one folder served side by side.        *)

RaceLogins == {<<U001, <<"password1">>, None>>}

InitRace == Start({FALSE})

NextRace ==
    \/ \E l \in RaceLogins : Token(l[1], l[2], l[3])
    \/ \E w \in Threads, t \in issued, p \in {Part, Part2} : UploadBegin(w, t, <<p>>)
    \/ \E w \in Threads : UploadOpen(w)
    \/ \E w \in Threads : UploadWrite(w)
    \/ \E w \in Threads : UploadClose(w)
    \/ \E w \in Threads : UploadFinish(w)

SpecRace == InitRace /\ [][NextRace]_vars

---------------------------------------------------------------------------
(* SpecWalk: metadata requests served side by side over a downloads tree    *)
(* that a Management subject filled before, while another process of the   *)
(* host removes files.                                                     *)

WalkPlaced ==
    {<<"downloads", "/", "a">>,
     <<"downloads", "/", "users", "/", "U001", "/", "a">>}

\* no request is being served step by step, and none was
AllIdle == \A w \in Threads : saving[w].pc = "idle"

InitWalk == Start({FALSE})

NextWalk ==
    \/ AllIdle /\ \E l \in StoreLogins : Token(l[1], l[2], l[3])
    \/ AllIdle /\ \E t \in issued, f \in WalkPlaced : SyncUpload(t, f, Part)
    \/ \E w \in Threads, t \in issued : MetaBegin(w, t)
    \/ \E w \in Threads : MetaList(w)
    \/ \E w \in Threads : MetaVisit(w)
    \/ \E w \in Threads : MetaLog(w)
    \/ \E w \in Threads : LogRead(w)
    \/ \E w \in Threads : LogWrite(w)
    \/ \E w \in Threads : MetaRespond(w)
    \/ \E l \in DOMAIN files : IsUnder(l, DataRoot \o << <<"downloads">> >>) /\ Unlink(l)

SpecWalk == InitWalk /\ [][NextWalk]_vars

---------------------------------------------------------------------------
(* SpecReport: a Management subject creates a folder and places a global    *)
(* file; subjects of every kind list the downloads and upload with tokens  *)
(* of several folders, in both modes.                                      *)

report == <<"acme", "-", "report", ".", "txt">>
ReportPath == <<"downloads", "/">> \o report

\* from downloads/users/ one level up, onto the path of the report
ReportAsFolder == <<".", ".", "/">> \o report

ReportLogins == {<<sync_client, <<"sync", "_", "password">>, None>>,
                 <<U001, <<"password1">>, None>>,
                 <<U001, <<"password1">>, <<>>>>,
                 <<U001, <<"password1">>, LogsFolder>>,
                 <<U002, <<"password2">>, acme>>,
                 <<U002, <<"wrong">>, acme>>,
                 <<U002, <<"password2">>, ReportAsFolder>>}

ReportTargets == {ReportPath, <<"downloads", "/", "users", "/", "acme", "/", "a">>}

ReportRemoveTargets ==
    {ReportPath, <<"uploads", "/", ".", ".", "/">> \o ReportPath}

InitReport == Start(BOOLEAN)

NextReport ==
    \/ \E l \in ReportLogins : Token(l[1], l[2], l[3])
    \/ \E t \in issued : CreateFolder(t, acme)
    \/ \E t \in issued, f \in ReportTargets, p \in {Part, Part2} : SyncUpload(t, f, p)
    \/ \E t \in issued : Upload(t, <<Part>>)
    \/ \E t \in issued, f \in ReportRemoveTargets : SyncDelete(t, f)
    \/ \E t \in issued : ListDownloads(t)

SpecReport == InitReport /\ [][NextReport]_vars

---------------------------------------------------------------------------
(* SpecList: a terminal lists its downloads and fetches what was listed,   *)
(* with tokens whose folder is a plain name, a relative path and an        *)
(* absolute path.                                                          *)

\* the downloads directory by its absolute path
AbsDownloads == <<"/", "app", "/", "dataroot", "/", "downloads">>

ListLogins == {<<sync_client, <<"sync", "_", "password">>, None>>,
               <<U001, <<"password1">>, None>>,
               <<U001, <<"password1">>, LogsFolder>>,
               <<U001, <<"password1">>, AbsDownloads>>}

ListPlaced ==
    {<<"downloads", "/", "a">>,
     <<"downloads", "/", "users", "/", "U001", "/", "a">>}

\* the paths the response to the last request lists, when it was list_downloads
Listed ==
    IF req.op = "list_downloads" /\ result.status = "json" /\ ~result.error
    THEN result.payload.files ELSE {}

InitList == Start({FALSE})

NextList ==
    \/ \E l \in ListLogins : Token(l[1], l[2], l[3])
    \/ \E t \in issued, f \in ListPlaced, p \in {Part, Part2} : SyncUpload(t, f, p)
    \/ \E t \in issued : ListDownloads(t)
    \/ \E f \in Listed : Download(req.token, f)

SpecList == InitList /\ [][NextList]_vars

---------------------------------------------------------------------------
(* SpecLife: files uploaded by terminals, listed and removed by a          *)
(* Management subject, with tokens whose folder is a plain name and a      *)
(* folder inside a folder.                                                 *)

\* a folder of two components
Deep == <<"acme", "/", "sub">>

LifeLogins == {<<sync_client, <<"sync", "_", "password">>, None>>,
               <<U001, <<"password1">>, None>>,
               <<U001, <<"password1">>, Deep>>}

LifeUploads == {<<Part>>, <<Part2>>, <<PartB>>}

\* uploads/{folder}/{filename} for the folders and filenames in use
LifeRemoveTargets ==
    {<<"uploads", "/">> \o l[3] \o SEP \o fs[1].filename :
        l \in {x \in LifeLogins : x[3] # None}, fs \in LifeUploads}
    \cup {<<"uploads", "/">> \o l[1] \o SEP \o fs[1].filename :
        l \in {x \in LifeLogins : x[3] = None}, fs \in LifeUploads}

InitLife == Start({FALSE})

NextLife ==
    \/ \E l \in LifeLogins : Token(l[1], l[2], l[3])
    \/ \E t \in issued, fs \in LifeUploads : Upload(t, fs)
    \/ \E t \in issued : ListUploads(t)
    \/ \E t \in issued, f \in LifeRemoveTargets : SyncDelete(t, f)

SpecLife == InitLife /\ [][NextLife]_vars

---------------------------------------------------------------------------
(* SpecFail: inputs that name what is not there, or what is there as the    *)
(* other kind of entry.                                                    *)

\* a filename naming a subdirectory that does not exist
Nested == [filename |-> <<"sub", "/", "x">>, data |-> <<1>>]

\* a token signed with the service's key whose payload has no subject
NoSubject == JwtEncode([user_folder |-> U001, exp |-> TOKEN_DURATION], JWT_KEY)

\* the empty target, an existing directory, the name of a folder to come
FailTargets ==
    {<<>>, <<"downloads", "/", "users">>, <<"downloads", "/", "users", "/", "acme">>}

InitFail == Start({FALSE})

NextFail ==
    \/ \E l \in StoreLogins \cup {<<U001, <<"password1">>, acme>>} :
           Token(l[1], l[2], l[3])
    \/ \E t \in issued \cup {NoSubject}, fs \in {<<Part>>, <<Nested>>} : Upload(t, fs)
    \/ \E t \in issued \cup {NoSubject}, f \in FailTargets : SyncUpload(t, f, Part)
    \/ \E t \in issued \cup {NoSubject} : CreateFolder(t, acme)
    \/ \E t \in issued \cup {NoSubject} : ListDownloads(t)

SpecFail == InitFail /\ [][NextFail]_vars

---------------------------------------------------------------------------
(* Properties *)

\* the operations that take a token
TokenOps == {"list_downloads", "download_file_auto", "download_file",
             "upload_files", "list_uploads", "sync_upload", "sync_delete",
             "file_metadata", "create_folder"}

\* the operations reserved to Management subjects
Privileged == {"list_uploads", "sync_upload", "sync_delete", "file_metadata",
               "create_folder"}

\* the last request was an issue-token that returned a token
TokenIssued == req.op = "token" /\ result.status = "json" /\ ~result.error

\* the last request carried a token
WithToken == req.op \in TokenOps /\ req.token # NoToken

\* the accesses of the last request that read, create, write or delete
Touched == {x \in io : x[1] \in {"read", "write", "mkdir", "remove"}}

\* tok carries a valid signature and its expiry is at or before t
Expired(tok, t) ==
    /\ tok.wf /\ tok.key = JWT_KEY
    /\ "exp" \in DOMAIN tok.claims /\ tok.claims.exp <= t

\* C1: the token an issue-token call returns verifies, before its expiry, to
\* the subject that authenticated and to the folder the call reported.
C1_IssueThenVerify ==
    TokenIssued =>
        LET tok == result.payload.token
        IN  /\ tok.claims.exp = req.at + TOKEN_DURATION
            /\ \A t \in Instants :
                   (req.at <= t /\ t < tok.claims.exp) =>
                       verify_token(tok, t) = <<req.user, result.payload.user_folder>>

C1_Witness ==
    /\ TokenIssued
    /\ req.user = U001 /\ req.folder = acme
    /\ result.payload.user_folder = acme

\* C2: from its expiry on a token never verifies, and every operation called
\* with it returns the unauthenticated result and touches no file.
C2_ExpiredNeverVerifies ==
    /\ \A tok \in issued : \A t \in Instants :
           t >= tok.claims.exp => verify_token(tok, t) = None
    /\ (WithToken /\ Expired(req.token, req.at)) =>
           result = Unauthenticated /\ io = {}

C2_Witness ==
    /\ WithToken /\ req.op = "sync_delete"
    /\ req.token \in issued /\ req.token.claims.user_id = sync_client
    /\ Expired(req.token, req.at)
    /\ Locate(dirs, Join(<<DATA_HOME, req.file>>)) \in DOMAIN files

RegularLogin ==
    /\ req.op = "token"
    /\ req.user \in DOMAIN jwt_users /\ req.user \notin MANAGEMENT_USERS
    /\ jwt_users[req.user] = req.password

\* C4: in restricted mode a Regular subject is denied any folder but its own
\* and is assigned its own id otherwise; no token of a Regular subject
\* carries another folder.
C4_RestrictedToOwnFolder ==
    RESTRICTED =>
        /\ RegularLogin =>
               IF Truthy(req.folder) /\ req.folder # req.user
               THEN result = JsonError(
                        "In restricted mode, users can only access their own folder.")
               ELSE /\ TokenIssued
                    /\ result.payload.user_folder = req.user
        /\ \A tok \in issued :
               tok.claims.user_id \notin MANAGEMENT_USERS =>
                   tok.claims.user_folder = tok.claims.user_id

C4_Witness ==
    /\ RESTRICTED /\ RegularLogin
    /\ req.user = U001 /\ req.folder = U002
    /\ result.error
    /\ \E tok \in issued : tok.claims.user_id = U001

\* C5: a Management subject in either mode, and a Regular subject outside
\* restricted mode, is never denied and gets the requested folder, or its own
\* id when it requested none.
C5_ResolveNeverDenies ==
    (/\ req.op = "token"
     /\ req.user \in DOMAIN jwt_users /\ jwt_users[req.user] = req.password
     /\ req.user \in MANAGEMENT_USERS \/ ~RESTRICTED) =>
        /\ TokenIssued
        /\ result.payload.user_folder =
               IF Truthy(req.folder) THEN req.folder ELSE req.user
        /\ result.payload.token.claims.user_folder = result.payload.user_folder

C5_Witness ==
    /\ RESTRICTED /\ TokenIssued
    /\ req.user = sync_client /\ req.folder = U001
    /\ result.payload.user_folder = U001

\* C6: issue-token returns a token only for a subject of the credential set
\* with that subject's secret; otherwise it returns an error without a token
\* and creates no directory.
C6_TokenOnlyForCredentials ==
    req.op = "token" =>
        /\ TokenIssued =>
               req.user \in DOMAIN jwt_users /\ jwt_users[req.user] = req.password
        /\ (req.user \notin DOMAIN jwt_users \/ jwt_users[req.user] # req.password) =>
               /\ result = JsonError("Invalid credentials.")
               /\ {x \in io : x[1] = "mkdir"} = {}

C6_Witness ==
    /\ req.op = "token"
    /\ req.user = U001 /\ req.password = <<"password2">> /\ req.folder = acme
    /\ result.error
    /\ DataRoot \o << <<"uploads">>, acme >> \notin dirs

\* C7: an expired token, a malformed token and a token with an invalid
\* signature get one and the same result from every operation.
C7_OneUnauthenticatedOutcome ==
    (/\ WithToken
     /\ JwtDecode(req.token, JWT_KEY, req.at).raised
            \in {"ExpiredSignatureError", "DecodeError", "InvalidSignatureError"}) =>
        /\ result = JsonError("Invalid or expired token.")
        /\ io = {}

C7_Witness ==
    /\ WithToken /\ req.op = "file_metadata"
    /\ JwtDecode(req.token, JWT_KEY, req.at).raised = "InvalidSignatureError"
    /\ \E tok \in issued : Expired(tok, now)

\* C8: a privileged operation called with a Regular subject's valid token is
\* denied and touches nothing; only a Management subject's token gives it an
\* effect.
C8_PrivilegedNeedsManagement ==
    (req.op \in Privileged /\ req.token # NoToken) =>
        LET auth == verify_token(req.token, req.at)
        IN  /\ (auth # None /\ auth[1] \notin MANAGEMENT_USERS) =>
                   result = JsonError("Access denied.") /\ io = {}
            /\ (io # {} \/ ~result.error) =>
                   auth # None /\ auth[1] \in MANAGEMENT_USERS

C8_Witness ==
    /\ req.op = "sync_delete"
    /\ req.token \in issued /\ req.token.claims.user_id = U001
    /\ Locate(dirs, Join(<<DATA_HOME, req.file>>)) \in DOMAIN files
    /\ result.error

\* the path holds a parent-directory segment
HasParentSegment(path) ==
    \E i \in 1..Len(Split(path)) : Split(path)[i] = DOTDOT

\* the target breaks the prefix rule of its operation
BreaksPrefixRule(op, path) ==
    LET reserved == \/ StartsWith(path, <<"uploads", "/">>)
                    \/ StartsWith(path, <<"logs", "/">>)
    IN  \/ op = "sync_upload" /\ reserved
        \/ op = "sync_delete" /\ ~reserved

\* C9: a path with a parent-directory segment, and a sync-place or
\* sync-remove target that breaks its prefix rule, is rejected and no file
\* is read, created, written or deleted.
C9_PathRejectedBeforeAccess ==
    (/\ req.op \in {"download_file_auto", "download_file", "sync_upload", "sync_delete"}
     /\ req.file # None
     /\ HasParentSegment(req.file) \/ BreaksPrefixRule(req.op, req.file)) =>
        /\ result.status = "json" /\ result.error
        /\ Touched = {}

\* C10: every path an operation reads, creates, writes or deletes lies under
\* the data root.
C10_UnderDataRoot == \A x \in Touched : IsUnder(x[2], DataRoot)


\* the directory the operating system resolves downloads/users/{folder} to
FolderLoc(folder) ==
    Locate(dirs, Join(<<DATA_HOME, <<"downloads">>, <<"users">>, folder>>))

Downloads == DataRoot \o << <<"downloads">> >>
Uploads == DataRoot \o << <<"uploads">> >>
Logs == DataRoot \o << <<"logs">> >>

\* C11: download-exact returns bytes only of a file under downloads/, and of
\* a file under downloads/users/ only when it is under the folder of the
\* caller's token.
C11_DownloadExactConfined ==
    (req.op = "download_file" /\ result.status = "file") =>
        LET loc == Locate(dirs, Join(<<DATA_HOME, req.file>>))
        IN  /\ IsUnder(loc, Downloads)
            /\ IsUnder(loc, Downloads \o << <<"users">> >>) =>
                   IsUnder(loc, FolderLoc(req.token.claims.user_folder))

\* a bare filename as download-fallback accepts it
BareName(n) ==
    /\ n # None
    /\ ~Contains(n, DOTDOT) /\ ~Contains(n, SEP) /\ ~Contains(n, <<"\\">>)

\* C12: download-fallback with a valid token and a bare filename returns the
\* file of the token's folder when it exists, else the global file when it
\* exists, else not-found.
C12_FallbackPrefersOwn ==
    (/\ req.op = "download_file_auto" /\ req.token # NoToken
     /\ verify_token(req.token, req.at) # None
     /\ BareName(req.file)) =>
        LET own == Append(FolderLoc(req.token.claims.user_folder), req.file)
            global == Append(Downloads, req.file)
        IN  IF own \in DOMAIN files THEN result = SendFile(files[own])
            ELSE IF global \in DOMAIN files THEN result = SendFile(files[global])
            ELSE result = JsonError("File not found in user or global directories.")

C12_Witness ==
    /\ req.op = "download_file_auto" /\ req.token \in issued
    /\ req.token.claims.user_folder = U001
    /\ LET own == Append(FolderLoc(U001), req.file)
           global == Append(Downloads, req.file)
       IN  /\ own \in DOMAIN files /\ global \in DOMAIN files
           /\ files[own].data # files[global].data
           /\ result = SendFile(files[own])

\* the locations the last request wrote, the day's log apart
Written == {x[2] : x \in {y \in io : y[1] = "write"}} \ {Locate(dirs, log_file)}

\* C13: sync-place writes no file in the uploads/ or logs/ tree, and a target
\* that designates a location in those trees is rejected.
C13_PlaceSparesUploadsAndLogs ==
    req.op = "sync_upload" =>
        /\ \A l \in Written : ~IsUnder(l, Uploads) /\ ~IsUnder(l, Logs)
        /\ LET loc == Locate(dirs, Join(<<DATA_HOME, req.file>>))
           IN  (IsUnder(loc, Uploads) \/ IsUnder(loc, Logs)) => result.error

\* C14: a sync-remove call deletes at most the file its target names, and
\* only under uploads/ or logs/; it leaves every other file but the day's
\* log, every file under downloads/ and every directory as they were; when
\* the target is no file the result is negative and nothing changes.
C14_RemoveOnlyTarget ==
    [][req'.op = "sync_delete" =>
          LET loc == Locate(dirs, Join(<<DATA_HOME, req'.file>>))
              gone == DOMAIN files \ DOMAIN files'
          IN  /\ gone \subseteq {loc}
              /\ gone # {} =>
                     /\ IsUnder(loc, Uploads) \/ IsUnder(loc, Logs)
                     /\ ~result'.error
              /\ \A l \in DOMAIN files \ {loc, Locate(dirs, log_file)} :
                     l \in DOMAIN files' /\ files'[l] = files[l]
              /\ \A l \in DOMAIN files :
                     IsUnder(l, Downloads) => l \in DOMAIN files' /\ files'[l] = files[l]
              /\ dirs' = dirs
              /\ loc \notin DOMAIN files => result'.error /\ files' = files
    ]_vars

C14_Witness ==
    /\ req.op = "sync_delete" /\ ~result.error
    /\ req.file = <<"uploads", "/", "U001", "/", "a">>
    /\ Uploads \o <<U001, a>> \notin DOMAIN files
    /\ Uploads \o <<U001, b>> \in DOMAIN files
    /\ Downloads \o <<a>> \in DOMAIN files

\* C15: upload with a valid token for folder F writes files under uploads/F/
\* only, stores there every named blob, and returns the stored filenames.
C15_UploadStaysInOwnFolder ==
    (/\ req.op = "upload_files" /\ req.token # NoToken
     /\ verify_token(req.token, req.at) # None) =>
        LET own == Uploads \o <<req.token.claims.user_folder>>
            named == SelectSeq(req.files, LAMBDA f : Truthy(f.filename))
        IN  /\ \A l \in Written : IsUnder(l, own)
            /\ ~result.error =>
                   /\ result.payload.uploaded_files
                          = [k \in 1..Len(named) |-> named[k].filename]
                   /\ \A k \in 1..Len(named) :
                          /\ Append(own, named[k].filename) \in DOMAIN files
                          /\ files[Append(own, named[k].filename)].data = named[k].data

\* C16: after two uploads of one filename to one folder, one after the other
\* or side by side, both have reported success, the file exists, and its
\* content is the blob of the upload whose write was completed last.
C16_LastWriterWins ==
    \A v, w \in Threads :
        (/\ v # w
         /\ saving[v].pc = "done" /\ saving[w].pc = "done"
         /\ saving[v].upload_folder = saving[w].upload_folder
         /\ saving[v].req.files[1].filename = saving[w].req.files[1].filename
         /\ saving[w].last) =>
            LET loc == Locate(dirs, Join(<<saving[w].upload_dir,
                                          saving[w].req.files[1].filename>>))
            IN  /\ ~saving[v].result.error /\ ~saving[w].result.error
                /\ loc \in DOMAIN files
                /\ files[loc].data = saving[w].req.files[1].data

\* the names of the files directly in the directory at loc
DirectFiles(loc) == {n \in ListDir(dirs, files, loc) : Append(loc, n) \in DOMAIN files}

\* the per-folder upload subtrees: the directories directly in uploads/
UploadFolders == {n \in ListDir(dirs, files, Uploads) : Append(Uploads, n) \in dirs}

\* C17, as stated: list-uploads of a Management subject has an entry for
\* every per-folder upload subtree, mapped to the files directly in it.
C17_ListUploadsEveryFolder ==
    (req.op = "list_uploads" /\ ~result.error) =>
        /\ DOMAIN result.payload.uploads = UploadFolders
        /\ \A n \in UploadFolders :
               result.payload.uploads[n] = DirectFiles(Append(Uploads, n))

\* C17, amended: list-uploads of a Management subject has an entry for every
\* per-folder upload subtree that holds a file directly in it, mapped to
\* exactly those files, and no entry for a subtree that holds none.
C17_ListUploadsNonEmpty ==
    (req.op = "list_uploads" /\ ~result.error) =>
        LET holding == {n \in UploadFolders : DirectFiles(Append(Uploads, n)) # {}}
        IN  /\ DOMAIN result.payload.uploads = holding
            /\ \A n \in holding :
                   result.payload.uploads[n] = DirectFiles(Append(Uploads, n))

C17_Witness ==
    /\ req.op = "list_uploads" /\ ~result.error
    /\ req.token.claims.user_id = sync_client
    /\ U001 \in DOMAIN result.payload.uploads
    /\ result.payload.uploads[U001] = {a}
    /\ U002 \in UploadFolders /\ U002 \notin DOMAIN result.payload.uploads

\* C18: list-downloads with a valid token for folder F returns exactly the
\* files directly in downloads/ and those directly in downloads/users/F/,
\* and never a file of another folder, a directory, or a file under
\* uploads/ or logs/.
C18_ListDownloadsOwnAndGlobal ==
    (req.op = "list_downloads" /\ ~result.error) =>
        LET own == FolderLoc(req.token.claims.user_folder)
            listed == {Locate(dirs, Join(<<DATA_HOME, p>>)) : p \in result.payload.files}
        IN  /\ listed = {Append(Downloads, n) : n \in DirectFiles(Downloads)}
                         \cup {Append(own, n) : n \in DirectFiles(own)}
            /\ \A l \in listed :
                   /\ l \in DOMAIN files
                   /\ ~IsUnder(l, Uploads) /\ ~IsUnder(l, Logs)
                   /\ IsUnder(l, Downloads \o << <<"users">> >>) =>
                          Parent(l) = Downloads
                                        \o << <<"users">>, req.token.claims.user_folder >>

\* a name that is not empty and holds only alphanumerics, "_" and "-"
WellFormedName(n) ==
    n # <<>> /\ \A k \in 1..Len(n) : n[k] \notin Punct \ {"_", "-"}

MetadataDone == req.op = "file_metadata" /\ ~result.error

\* C20: metadata has one entry per file under downloads/, keyed by its path
\* relative to the data root, with the size and the SHA-256 of the file's
\* bytes; two computations with nothing in between give the same keys,
\* sizes and digests.
C20_MetadataIdempotent ==
    /\ [](MetadataDone =>
            LET tree == {l \in DOMAIN files : IsUnder(l, Downloads)}
                m == result.payload.metadata
            IN  /\ DOMAIN m = {RelPath(l) : l \in tree}
                /\ \A l \in tree :
                       /\ m[RelPath(l)].size = Len(files[l].data)
                       /\ m[RelPath(l)].hash = Sha256(files[l].data))
    /\ [][(MetadataDone /\ MetadataDone') =>
              LET m == result.payload.metadata
                  n == result'.payload.metadata
              IN  /\ DOMAIN m = DOMAIN n
                  /\ \A k \in DOMAIN m :
                         m[k].size = n[k].size /\ m[k].hash = n[k].hash
       ]_vars

C20_Witness ==
    /\ MetadataDone
    /\ LET m == result.payload.metadata
           own == <<"downloads", "/", "users", "/", "U001", "/", "a">>
           global == <<"downloads", "/", "a">>
       IN  /\ {own, global} \subseteq DOMAIN m
           /\ m[own].hash # m[global].hash
           /\ m[own].size = 2 /\ m[global].size = 1

\* thread w serves, or has served, a metadata request that passed its checks
Walker(w) ==
    /\ saving[w].pc # "idle"
    /\ saving[w].req.op = "file_metadata"
    /\ saving[w].req.token # NoToken
    /\ verify_token(saving[w].req.token, saving[w].req.at) # None
    /\ verify_token(saving[w].req.token, saving[w].req.at)[1] \in MANAGEMENT_USERS

RelPaths(locs) == {RelPath(l) : l \in locs}

\* the record line 529 logs for the file at loc
ErrorEntry(w, loc) ==
    LogEntry(saving[w].user_id, "METADATA_ERROR", <<"File", RelPath(loc), "Error">>)

\* C21: a file that fails during the walk of metadata is skipped and logged
\* with its path and error (the record ends the list the request writes to
\* the day's log, and stays in the log of a request served alone), the walk
\* goes on over every other listed file, and the request ends in success
\* with the entries of all the other files.
C21_WalkSurvivesFailures ==
    \A w \in Threads : Walker(w) =>
        LET t == saving[w]
            logging(l) == t.pc \in {"logread", "logwrite"} /\ t.entry = ErrorEntry(w, l)
        IN  /\ t.result # Abort
            /\ t.skipped \cap DOMAIN files = {}
            /\ DOMAIN t.metadata \cap RelPaths(t.skipped) = {}
            /\ (t.pc = "walk" /\ t.skipped # {}) =>
                   /\ t.logs # <<>>
                   /\ \E l \in t.skipped : t.logs[Len(t.logs)] = ErrorEntry(w, l)
            /\ (\A v \in Threads \ {w} : saving[v].pc = "idle") =>
                   \A l \in t.skipped :
                       \/ logging(l)
                       \/ \E k \in 1..Len(LogRecords) : LogRecords[k] = ErrorEntry(w, l)
            /\ t.pc = "done" =>
                   /\ t.result = Json(FALSE, "Metadata retrieved.",
                                      [metadata |-> t.metadata])
                   /\ RelPaths(t.listed) = DOMAIN t.metadata \cup RelPaths(t.skipped)
                   /\ \A l \in DOMAIN files :
                          IsUnder(l, Downloads) =>
                              /\ RelPath(l) \in DOMAIN t.metadata
                              /\ t.metadata[RelPath(l)] = MetadataOf(files, l)

C21_Witness ==
    \E w \in Threads :
        /\ Walker(w) /\ saving[w].pc = "done"
        /\ saving[w].skipped = {Downloads \o <<a>>}
        /\ DOMAIN saving[w].metadata = {<<"downloads", "/", "users", "/", "U001", "/", "a">>}
        /\ ~saving[w].result.error
        /\ \A v \in Threads \ {w} : saving[v].pc = "idle"
        /\ \E k \in 1..Len(LogRecords) : LogRecords[k] = ErrorEntry(w, Downloads \o <<a>>)


\* where downloads/acme-report.txt lies
ReportLoc == Downloads \o <<report>>

\* C22: once a Management subject has placed downloads/acme-report.txt, no
\* operation removes the file, and every list-downloads call with a valid
\* token, of any subject and folder, succeeds and lists it.
C22_PlacedReportIsListed ==
    /\ [](/\ (req.op = "sync_upload" /\ req.file = ReportPath /\ ~result.error) =>
                 ReportLoc \in DOMAIN files
          /\ (/\ req.op = "list_downloads" /\ req.token # NoToken
              /\ verify_token(req.token, req.at) # None
              /\ ReportLoc \in DOMAIN files) =>
                 /\ result.status = "json" /\ ~result.error
                 /\ ReportPath \in result.payload.files)
    /\ [][(ReportLoc \in DOMAIN files) => (ReportLoc \in DOMAIN files')]_vars

C22_Witness ==
    /\ req.op = "list_downloads" /\ ~result.error
    /\ req.token.claims.user_id = U001 /\ req.token.claims.user_folder = LogsFolder
    /\ ReportPath \in result.payload.files
    /\ files[Downloads \o <<report>>].data = <<2, 2>>
    /\ \E tok \in issued : /\ tok.claims.user_id = sync_client
                           /\ tok.claims.user_folder = sync_client
    /\ Uploads \o <<acme>> \in dirs /\ Downloads \o << <<"users">>, acme >> \in dirs

\* the stored files and directories the last request read, created, wrote
\* or deleted, the day's log apart
StoreTouched == {x \in Touched : x[2] # Locate(dirs, log_file)}

\* a relative path free of parent-directory segments
ValidRelative(path) ==
    path # None /\ ~HasParentSegment(path) /\ ~StartsWith(path, SEP)

\* every path, filename and name of the last request passes the validation
\* that applies to it
PathsValid ==
    CASE req.op = "download_file_auto" -> BareName(req.file)
      [] req.op = "download_file" -> ValidRelative(req.file)
      [] req.op \in {"sync_upload", "sync_delete"} ->
             ValidRelative(req.file) /\ ~BreaksPrefixRule(req.op, req.file)
      [] req.op = "upload_files" ->
             \A k \in 1..Len(req.files) :
                 Truthy(req.files[k].filename) => BareName(req.files[k].filename)
      [] req.op = "create_folder" -> req.folder # None /\ WellFormedName(req.folder)
      [] OTHER -> TRUE

\* C23: an operation creates a directory, or reads, writes or deletes a
\* stored file, only after the token verified, the role check passed for a
\* privileged operation, and every caller-supplied path and filename passed
\* its validation.
C23_ChecksBeforeAccess ==
    (req.op \in TokenOps /\ StoreTouched # {}) =>
        /\ req.token # NoToken
        /\ verify_token(req.token, req.at) # None
        /\ req.op \in Privileged =>
               verify_token(req.token, req.at)[1] \in MANAGEMENT_USERS
        /\ PathsValid

\* the last request was an issue-token with a bad credential
BadCredential ==
    /\ req.op = "token" /\ req.user # None /\ req.password # None
    /\ req.user \notin DOMAIN jwt_users \/ jwt_users[req.user] # req.password

\* the last request carried a token that does not verify
BadToken == WithToken /\ JwtDecode(req.token, JWT_KEY, req.at).raised # ""

\* C24, as stated: a bad credential at issue-token and a token that does not
\* verify at any other operation get one and the same message.
C24_OneAuthMessage ==
    (BadCredential \/ BadToken) => result.message = "Invalid or expired token."

\* C24, amended: a bad credential at issue-token gets the one message
\* "Invalid credentials.", for an unknown subject and for a wrong secret
\* alike; a token that does not verify gets the one message "Invalid or
\* expired token." at every other operation, malformed, expired or badly
\* signed alike.
C24_OneMessagePerKind ==
    /\ BadCredential => result = JsonError("Invalid credentials.")
    /\ BadToken => result = JsonError("Invalid or expired token.")

C24_Witness ==
    /\ BadCredential /\ req.user = ghost
    /\ result.message = "Invalid credentials."
    /\ \E tok \in issued : Expired(tok, now)

\* the name passes the test of create-folder
AcceptedName(n) ==
    n # None /\ WellFormedName(n) /\ \E k \in 1..Len(n) : n[k] \notin Punct

\* both per-folder subtrees of name n exist in the directories D
BothSubtrees(D, n) ==
    /\ Downloads \o << <<"users">>, n >> \in D
    /\ Uploads \o << n >> \in D

\* C25: after a successful create-folder both subtrees of the name exist;
\* a create-folder of a name whose subtrees exist already succeeds and leaves
\* every directory and every stored file as it was.
C25_CreateFolderIdempotent ==
    /\ []((req.op = "create_folder" /\ ~result.error) => BothSubtrees(dirs, req.folder))
    /\ [][(/\ req'.op = "create_folder" /\ req'.token # NoToken
           /\ verify_token(req'.token, req'.at) # None
           /\ verify_token(req'.token, req'.at)[1] \in MANAGEMENT_USERS
           /\ AcceptedName(req'.folder)
           /\ BothSubtrees(dirs, req'.folder)) =>
              /\ ~result'.error
              /\ dirs' = dirs
              /\ DOMAIN files' \ {Locate(dirs, log_file)}
                     = DOMAIN files \ {Locate(dirs, log_file)}
              /\ \A l \in DOMAIN files \ {Locate(dirs, log_file)} : files'[l] = files[l]
       ]_vars

C25_Witness ==
    /\ req.op = "create_folder" /\ ~result.error /\ req.folder = acme
    /\ {x \in io : x[1] = "mkdir"} = {}
    /\ \A tok \in issued : tok.claims.user_folder # acme
    /\ Downloads \o << <<"users">>, acme, a >> \in DOMAIN files
    /\ Uploads \o << acme >> \in dirs

\* the log records the request of thread w has written once it is over
Logged(w) ==
    IF Walker(w) /\ saving[w].pc = "done"
    THEN 1 + Cardinality(saving[w].skipped) ELSE 0

RECURSIVE LoggedBy(_)
LoggedBy(W) ==
    IF W = {} THEN 0
    ELSE LET w == CHOOSE w \in W : TRUE IN Logged(w) + LoggedBy(W \ {w})

\* C26: once the requests served side by side are all over, the day's log
\* holds one record for each operation they logged; no log write loses the
\* record of another.
C26_LogKeepsEveryRecord ==
    (\A w \in Threads : saving[w].pc \in {"idle", "done"}) =>
        Len(LogRecords) = LoggedBy(Threads)

\* C27: every operation ends by returning a structured result, the success
\* or error envelope or the bytes of a file, and never by an unhandled
\* failure.
C27_AlwaysStructured == result.status \in {"json", "file"}

\* the operations that only read the store
ReadOps == {"list_downloads", "download_file_auto", "download_file",
            "list_uploads", "file_metadata", "list_folders"}

\* the stored files under downloads/ and uploads/ in F
Stored(F) == {l \in DOMAIN F : IsUnder(l, Downloads) \/ IsUnder(l, Uploads)}

\* C28: list-downloads, download-fallback, download-exact, list-uploads,
\* metadata and list-folders leave every directory, and every file under
\* downloads/ and uploads/, as they were, whatever the result.
C28_ReadOpsChangeNothing ==
    /\ [](req.op \in ReadOps =>
             \A x \in io : x[1] \in {"mkdir", "remove", "write"} =>
                 x = Access("write", Locate(dirs, log_file)))
    /\ [][req'.op \in ReadOps =>
              /\ dirs' = dirs
              /\ Stored(files') = Stored(files)
              /\ \A l \in Stored(files) : files'[l] = files[l]
       ]_vars

C28_Witness ==
    /\ req.op = "download_file" /\ result.status = "file"
    /\ req.file = <<"downloads", "/", "a">>
    /\ Downloads \o <<a>> \in DOMAIN files
    /\ Uploads \o <<U001, a>> \in DOMAIN files

\* C29: every issued token carries a non-empty folder, the requested one
\* when it is non-empty and the subject's id otherwise; an upload with an
\* issued token reports that folder and stores bare filenames under
\* uploads/{folder}/, never taking its fallback to the subject's id.
C29_IssuedFolderNeverEmpty ==
    /\ \A tok \in issued : Truthy(tok.claims.user_folder)
    /\ TokenIssued =>
           /\ result.payload.token.claims.user_folder = result.payload.user_folder
           /\ result.payload.user_folder \in {req.folder, req.user}
           /\ Truthy(req.folder) => result.payload.user_folder = req.folder
    /\ (req.op = "upload_files" /\ req.token \in issued /\ ~result.error) =>
           LET F == req.token.claims.user_folder
           IN  /\ result.payload.upload_folder = F
               /\ \A k \in 1..Len(req.files) :
                      BareName(req.files[k].filename) /\ Truthy(req.files[k].filename) =>
                          Locate(dirs, Join(<<DATA_HOME, <<"uploads">>, F>>))
                              \o <<req.files[k].filename>> \in DOMAIN files

C29_Witness ==
    /\ req.op = "upload_files" /\ ~result.error
    /\ req.token \in issued
    /\ req.token.claims.user_id = U002 /\ req.token.claims.user_folder = acme
    /\ result.payload.upload_folder = acme
    /\ Uploads \o <<acme, a>> \in DOMAIN files
    /\ Uploads \o <<U002, a>> \notin DOMAIN files

\* C30: after a successful issue-token both subtrees of the assigned folder
\* exist, for any subject and any folder name; an issue-token that fails on
\* the credential or on restricted mode creates no directory.
C30_IssueCreatesSubtrees ==
    /\ [](TokenIssued =>
             LET F == result.payload.user_folder
             IN  /\ os_path_isdir(dirs, files,
                        Join(<<DATA_HOME, <<"downloads">>, <<"users">>, F>>))
                 /\ os_path_isdir(dirs, files, Join(<<DATA_HOME, <<"uploads">>, F>>)))
    /\ [][(/\ req'.op = "token"
           /\ \/ result'.message = "Invalid credentials."
              \/ result'.message =
                     "In restricted mode, users can only access their own folder.")
          => (dirs' = dirs /\ ~TokenIssued')
       ]_vars

C30_Witness ==
    /\ TokenIssued
    /\ req.user = U002 /\ req.folder = ReportAsFolder
    /\ ~AcceptedName(req.folder)
    /\ Downloads \o <<report>> \in dirs
    /\ DataRoot \o <<report>> \in dirs
    /\ \E x \in io : x[1] = "mkdir"

\* the file list_downloads read the listed path p from, for a token of
\* folder user_folder (flask_sync_api.py:203-217)
ListedFrom(user_folder, p) ==
    LET prefix == <<"downloads", "/", "users", "/">> \o user_folder \o SEP
    IN  IF StartsWith(p, prefix)
        THEN Append(Locate(dirs, Join(<<DATA_HOME, <<"downloads">>, <<"users">>,
                                        user_folder>>)),
                    SubSeq(p, Len(prefix) + 1, Len(p)))
        ELSE Append(Downloads, SubSeq(p, 3, Len(p)))

\* C31: every path list-downloads returns for a token is permitted by
\* download-exact with the same token: called on that path while the file
\* is as the listing saw it, download-exact is never denied and returns the
\* bytes of the listed file.
C31_ListedIsDownloadable ==
    (req.op = "list_downloads" /\ result.status = "json" /\ ~result.error) =>
        \A p \in result.payload.files :
            LET got == download_file(req.token, p).result
                from == ListedFrom(req.token.claims.user_folder, p)
            IN  /\ from \in DOMAIN files
                /\ got.status = "file"
                /\ got.payload = files[from]

\* the folders of the tokens issued and the filenames terminals upload
LifeFolders == {t.claims.user_folder : t \in issued}
LifeNames == {fs[1].filename : fs \in LifeUploads}

\* the relative path uploads/F/n and whether a file stands there
UploadPath(F, n) == <<"uploads", "/">> \o F \o SEP \o n
Standing(D, Fs, F, n) == Locate(D, Join(<<DATA_HOME, UploadPath(F, n)>>)) \in DOMAIN Fs

Succeeded(r) == r.status = "json" /\ ~r.error

\* list-uploads answered and maps folder F to a list that holds n
ListsUnder(F, n) ==
    /\ F \in DOMAIN result.payload.uploads
    /\ n \in result.payload.uploads[F]

\* the file of uploads/F/n is listed by every list-uploads of a Management
\* subject while it stands, and by none while it does not
LifeListed ==
    (req.op = "list_uploads" /\ Succeeded(result)) =>
        \A F \in LifeFolders, n \in LifeNames :
            Standing(dirs, files, F, n) <=> ListsUnder(F, n)

\* one step of the life of uploads/F/n: an upload that succeeds makes it
\* stand; it stands until a sync-remove of it succeeds, which takes it away;
\* it stays away until it is uploaded again, and meanwhile a sync-remove of
\* it answers not-found
LifeStep(F, n) ==
    LET uploaded == /\ req'.op = "upload_files" /\ Succeeded(result')
                    /\ req'.token.claims.user_folder = F
                    /\ \E i \in DOMAIN result'.payload.uploaded_files :
                           result'.payload.uploaded_files[i] = n
        removing == /\ req'.op = "sync_delete"
                    /\ req'.token.claims.user_id \in MANAGEMENT_USERS
                    /\ req'.file = UploadPath(F, n)
        removed  == removing /\ Succeeded(result')
    IN  /\ uploaded => Standing(dirs', files', F, n)
        /\ removed => ~Standing(dirs', files', F, n)
        /\ (Standing(dirs, files, F, n) /\ ~removed) => Standing(dirs', files', F, n)
        /\ (~Standing(dirs, files, F, n) /\ ~uploaded) => ~Standing(dirs', files', F, n)
        /\ (~Standing(dirs, files, F, n) /\ removing) =>
               result' = JsonError("File not found.")

\* C32: after upload of filename n with a token for folder F succeeds, every
\* list-uploads by a Management subject maps F to a list containing n until
\* a sync-remove of uploads/F/n succeeds; from then until n is uploaded to F
\* again, list-uploads does not list n under F and a sync-remove of the same
\* path returns not-found.
C32_UploadLifecycle ==
    /\ []LifeListed
    /\ [][\A F \in LifeFolders, n \in LifeNames : LifeStep(F, n)]_vars

===========================================================================
